---- MODULE Spec2Model ----
(***************************************************************************)
(* A model of the core of guidance: the engine loop (Engine.__call__ and   *)
(* Engine.get_next_top_k_tokens in models/_model.py), the JSON-schema      *)
(* grammar builders of library/_json.py (GenJson._join, object, array,     *)
(* json) and the reference thunks (GenJson.ref with the _decorator of      *)
(* _guidance.py).                                                          *)
(*                                                                         *)
(* An optional value (Python's None or a value) is a sequence of length 0  *)
(* or 1.                                                                   *)
(***************************************************************************)
EXTENDS Integers, Sequences, FiniteSets, TLC

VARIABLES
    \* ---- tokenizer and parser (guidance._parser.TokenParser) ----
    tok_eos,        \* tokenizer.eos_token_id: <<>> or <<token>>
    p_prompt,       \* the token ids of the prompt the parser was started with
    p_tokens,       \* the parser's token prefix: prompt, then the accepted tokens
    p_done,         \* parser.done()
    p_accepting,    \* parser.is_accepting()
    p_steps,        \* advance calls the parser has served
    p_afterDone,    \* advance was called on a parser whose done() was true
    \* ---- Engine.__call__: locals of the generator ----
    e_pc,           \* position of the generator
    e_out,          \* engine_output: <<>> or <<[token, prob, is_generated]>>
    e_gen,          \* gen_data of the last advance: <<>> or <<[tokens, mask]>>
    e_isacc,        \* is_in_accepting_state of the last gen_data branch
    \* ---- the oracle as Engine.__call__ used it ----
    o_mask,         \* mask argument of the last get_next_top_k_tokens call
    o_query,        \* token_ids argument of that call
    o_raw,          \* issued token that call returned (before post-correction)
    o_log,          \* tokens the engine computed for the parser, in order
    \* ---- observation counters ----
    n_check,        \* parser.done() evaluations
    n_adv,          \* parser.advance calls
    n_gen,          \* advance calls that returned gen_data
    n_oracle,       \* get_next_top_k_tokens calls
    n_yield,        \* yields
    \* ---- a call of GenJson._join ----
    jn_call,        \* its arguments: [n, required, prefixed, sep]
    jn_out,         \* <<>> before the call, <<grammar>> after it
    \* ---- a call of json(schema=..., separators=..., whitespace_flexible=...) ----
    gj_call,        \* its arguments: [schema, separators, whitespace_flexible]
    gj_out,         \* <<>> before the call, <<[error, skip_regex, grammar]>> after it
    \* ---- one GenJson compiling $ref: ref(), its closures, json(), allOf() ----
    rf_schema,      \* the definitions of the schema, by URI
    rf_stack,       \* the Python call stack: frames [op, uri]
    rf_mode,        \* "idle", "call" (top frame entered), "return" (top frame done), "raise"
    rf_ret,         \* the value the top frame returns
    rf_defs,        \* self._defs: the URIs that have a closure
    rf_thunks,      \* closures created, by URI
    rf_slot,        \* thread_local._self_call_reference_ of each closure: 0 or a DeferredReference
    rf_cache,       \* the URIs whose closure has a functools.cache entry
    rf_refs,        \* the DeferredReference objects created so far: [uri, value, aborted, handed]
    rf_started,     \* times the body of each closure was entered
    rf_compiled,    \* times the body of each closure returned a grammar
    rf_calls,       \* ref() calls made from outside
    rf_result,      \* how the last of them ended
    \* ---- a call of GenJson.allOf(parent_schema={"allOf": [...]}) ----
    ao_call,        \* the subschemas of the allOf list, in order
    ao_out,         \* <<>> before the call, <<[error, type, required, const]>> after it
    \* ---- GenJson.json of {"type": "integer", bounds...} ----
    ir_call,        \* [minimum, maximum, exclusiveMinimum, exclusiveMaximum], each <<>> or <<number>>
    ir_out,         \* <<>> before the call, <<[lo, hi]>> after it: the arguments of rx_int_range
    \* ---- regex(pattern) and a parse of its grammar ----
    rx_tree,        \* the parsed pattern
    rx_grammar,     \* <<>> before regex(pattern), then <<grammar>> or <<the exception>>
    rx_frontier,    \* <<what is left of the grammar after the bytes consumed>>
    rx_consumed,    \* the bytes the parser has consumed
    rx_failed,      \* a byte that was not allowed was offered
    \* ---- calls of one stateless guidance function, on two threads ----
    sc_wrapper,     \* GuidanceFunction._wrapper: 0 (None) or the wrapper _decorator returned
    sc_nwrappers,   \* the wrappers _decorator has returned so far
    sc_slot,        \* thread_local._self_call_reference_ of each wrapper, per thread: <<>> or <<reference>>
    sc_refs,        \* the DeferredReferences created: who installed each, its value, how often it was assigned
    sc_stack,       \* per thread, the calls in progress, outermost first
    sc_raising,     \* per thread, an exception is propagating to the call on top
    sc_nodes,       \* the nodes bodies have returned so far
    sc_calls,       \* per thread, the calls started so far
    sc_last,        \* per thread, what the call that finished last returned
    \* ---- Model objects: m + v, m.set, m.remove ----
    md_models,      \* the Model objects the program holds
    md_lists,       \* the list objects that variables refer to, by identity
    md_active,      \* Model.global_active_blocks holds the context block
    md_last,        \* the last operation: the model it was evaluated on, as it was before, and the result
    \* ---- ModelStream.__iter__: a worker thread, the event queue, the consumer ----
    st_events,      \* how many model events the run of the grammar sends
    st_raises,      \* the grammar or function raises after them
    st_queue,       \* the event queue (queue.Queue)
    st_put,         \* the model events the worker has put
    st_worker,      \* the worker thread: "none", "running", "finishing", "dead"
    st_consumer,    \* the consumer in __iter__: "new", "get", "empty", "join", "done", "raised"
    st_yielded,     \* the events __iter__ has yielded
    \* ---- Model._run_stateless: the chunks of one run of the engine ----
    rs_state,       \* lm._state, the text of the model
    rs_token_count, \* lm.token_count
    rs_variables,   \* lm._variables
    rs_log_probs,   \* lm._variables_log_probs
    rs_pc,          \* "idle", "running" (in the loop over the chunks), "raised"
    rs_delayed,     \* delayed_bytes
    rs_bytes,       \* the new_bytes of the chunks of the run, concatenated as the engine sent them
    rs_text0,       \* the text when the operation began
    rs_count0,      \* token_count when the operation began
    rs_sum,         \* the sum of new_token_count over the chunks of the run
    rs_chunk,       \* the capture groups of the last chunk, if the last step was a chunk
    rs_ids,         \* the captures delivered so far (each is numbered)
    rs_ops,         \* the operations and chunks so far
    \* ---- Model.__add__: opening and closing context blocks ----
    bk_active,      \* Model.global_active_blocks, in the order the blocks were entered
    bk_opened,      \* the keys of m.opened_blocks, in the order they were inserted
    bk_state,       \* what was appended to m's state: openers, closers and values
    bk_adds,        \* additions so far
    bk_last,        \* the last addition: the opened and active blocks and the state before it, and how it ended
    \* ---- Engine.get_next_token and sample_with_temperature ----
    sw_call,        \* the call: logits (from get_logits), their dtype, mask (none or one), temperature
    sw_out,         \* the token returned (none or one)
    \* ---- AnthropicSession.__call__ and the call history of Anthropic ----
    an_max_retries,         \* Anthropic.max_retries
    an_max_calls_per_min,   \* Anthropic.max_calls_per_min
    an_now,                 \* time.time(), in seconds
    an_call_history,        \* Anthropic.call_history: the timestamps of the calls
    an_pc,                  \* where the request is: idle, wait, call, done, raised
    an_fail_count,          \* fail_count of the request
    an_attempts,            \* calls of self.llm.caller made for the request
    an_requests,            \* uncached requests so far
    \* ---- gen with tools ----
    gt_call,        \* the call: max_tokens, hide_tool_call, initial_token_count
    gt_lm,          \* lm: the tool{i} variables it holds, its token_count, whether the suffix was appended
    gt_pc,          \* where gen is: loop (at the test of the while loop) or returned
    gt_captured,    \* the tools whose capture the grammar produced in the last iteration
    gt_ran,         \* the tools run in the last iteration
    \* ---- json_schema_to_grammar ----
    sg_node,        \* the schema node handed to _process_node
    sg_out,         \* what _process_node returned or raised (none or one)
    \* ---- serialize_message and deserialize_message ----
    mg_message,     \* the message serialized (none or one)
    mg_data,        \* the JSON text (none or one)
    mg_out,         \* what deserialize_message returned or raised (none or one)
    \* ---- Monitor and _monitor_fn ----
    mo_stop_flag,   \* Monitor.stop_flag.value, shared with the monitoring processes
    mo_process,     \* Monitor.process: 0 (None) or the process started last
    mo_procs,       \* the monitoring processes started: "running" or "exited"
    mo_metrics,     \* a list of metrics_dict: for each sample the process that appended it
    mo_pc,          \* the caller: idle, or waiting in process.join() of stop or of reset
    mo_last,        \* the last call completed: none, start, stop, reset
    mo_stopped,     \* a stop() or reset() has stopped a process, and no start() came after a stop()
    \* ---- new.Model.role ----
    ro_api,         \* the kind of API state: completion (no roles), chat (one role at a time), nested
    ro_active,      \* the ids of the roles open in the API state, innermost last
    ro_blocks,      \* the with-blocks of model.role in progress: the id of their RoleStart, innermost last
    ro_log,         \* the chunks applied, in order
    ro_ids,         \* RoleStart chunks created so far
    ro_rejected,    \* the ids of the RoleStart chunks the API state rejected
    ro_raising,     \* an exception is on its way out of the innermost block
    ro_content      \* content chunks applied so far

engineVars == <<tok_eos, p_prompt, p_tokens, p_done, p_accepting, p_steps, p_afterDone,
                e_pc, e_out, e_gen, e_isacc, o_mask, o_query, o_raw, o_log,
                n_check, n_adv, n_gen, n_oracle, n_yield>>

joinVars == <<jn_call, jn_out>>

jsonVars == <<gj_call, gj_out>>

refVars == <<rf_schema, rf_stack, rf_mode, rf_ret, rf_defs, rf_thunks, rf_slot, rf_cache,
             rf_refs, rf_started, rf_compiled, rf_calls, rf_result>>

allOfVars == <<ao_call, ao_out>>

integerVars == <<ir_call, ir_out>>

regexVars == <<rx_tree, rx_grammar, rx_frontier, rx_consumed, rx_failed>>

selfCallVars == <<sc_wrapper, sc_nwrappers, sc_slot, sc_refs, sc_stack, sc_raising, sc_nodes, sc_calls, sc_last>>

modelVars == <<md_models, md_lists, md_active, md_last>>

streamVars == <<st_events, st_raises, st_queue, st_put, st_worker, st_consumer, st_yielded>>

runVars == <<rs_state, rs_token_count, rs_variables, rs_log_probs, rs_pc, rs_delayed, rs_bytes, rs_text0, rs_count0, rs_sum, rs_chunk, rs_ids, rs_ops>>

blocksVars == <<bk_active, bk_opened, bk_state, bk_adds, bk_last>>

samplingVars == <<sw_call, sw_out>>

anthropicVars == <<an_max_retries, an_max_calls_per_min, an_now, an_call_history, an_pc, an_fail_count, an_attempts, an_requests>>

toolsVars == <<gt_call, gt_lm, gt_pc, gt_captured, gt_ran>>

schemaVars == <<sg_node, sg_out>>

messageVars == <<mg_message, mg_data, mg_out>>

monitorVars == <<mo_stop_flag, mo_process, mo_procs, mo_metrics, mo_pc, mo_last, mo_stopped>>

roleVars == <<ro_api, ro_active, ro_blocks, ro_log, ro_ids, ro_rejected, ro_raising, ro_content>>

vars == <<engineVars, joinVars, jsonVars, refVars, allOfVars, integerVars, regexVars, selfCallVars, modelVars, streamVars, runVars, blocksVars, samplingVars, anthropicVars, toolsVars, schemaVars, messageVars, monitorVars, roleVars>>

nonEngineVars == <<joinVars, jsonVars, refVars, allOfVars, integerVars, regexVars, selfCallVars, modelVars, streamVars, runVars, blocksVars, samplingVars, anthropicVars, toolsVars, schemaVars, messageVars, monitorVars, roleVars>>

nonJoinVars == <<engineVars, jsonVars, refVars, allOfVars, integerVars, regexVars, selfCallVars, modelVars, streamVars, runVars, blocksVars, samplingVars, anthropicVars, toolsVars, schemaVars, messageVars, monitorVars, roleVars>>

nonJsonVars == <<engineVars, joinVars, refVars, allOfVars, integerVars, regexVars, selfCallVars, modelVars, streamVars, runVars, blocksVars, samplingVars, anthropicVars, toolsVars, schemaVars, messageVars, monitorVars, roleVars>>

nonRefVars == <<engineVars, joinVars, jsonVars, allOfVars, integerVars, regexVars, selfCallVars, modelVars, streamVars, runVars, blocksVars, samplingVars, anthropicVars, toolsVars, schemaVars, messageVars, monitorVars, roleVars>>

nonAllOfVars == <<engineVars, joinVars, jsonVars, refVars, integerVars, regexVars, selfCallVars, modelVars, streamVars, runVars, blocksVars, samplingVars, anthropicVars, toolsVars, schemaVars, messageVars, monitorVars, roleVars>>

nonIntegerVars == <<engineVars, joinVars, jsonVars, refVars, allOfVars, regexVars, selfCallVars, modelVars, streamVars, runVars, blocksVars, samplingVars, anthropicVars, toolsVars, schemaVars, messageVars, monitorVars, roleVars>>

nonRegexVars == <<engineVars, joinVars, jsonVars, refVars, allOfVars, integerVars, selfCallVars, modelVars, streamVars, runVars, blocksVars, samplingVars, anthropicVars, toolsVars, schemaVars, messageVars, monitorVars, roleVars>>

nonSelfCallVars == <<engineVars, joinVars, jsonVars, refVars, allOfVars, integerVars, regexVars, modelVars, streamVars, runVars, blocksVars, samplingVars, anthropicVars, toolsVars, schemaVars, messageVars, monitorVars, roleVars>>

nonModelVars == <<engineVars, joinVars, jsonVars, refVars, allOfVars, integerVars, regexVars, selfCallVars, streamVars, runVars, blocksVars, samplingVars, anthropicVars, toolsVars, schemaVars, messageVars, monitorVars, roleVars>>

nonStreamVars == <<engineVars, joinVars, jsonVars, refVars, allOfVars, integerVars, regexVars, selfCallVars, modelVars, runVars, blocksVars, samplingVars, anthropicVars, toolsVars, schemaVars, messageVars, monitorVars, roleVars>>

nonRunVars == <<engineVars, joinVars, jsonVars, refVars, allOfVars, integerVars, regexVars, selfCallVars, modelVars, streamVars, blocksVars, samplingVars, anthropicVars, toolsVars, schemaVars, messageVars, monitorVars, roleVars>>

nonBlocksVars == <<engineVars, joinVars, jsonVars, refVars, allOfVars, integerVars, regexVars, selfCallVars, modelVars, streamVars, runVars, samplingVars, anthropicVars, toolsVars, schemaVars, messageVars, monitorVars, roleVars>>

nonSamplingVars == <<engineVars, joinVars, jsonVars, refVars, allOfVars, integerVars, regexVars, selfCallVars, modelVars, streamVars, runVars, blocksVars, anthropicVars, toolsVars, schemaVars, messageVars, monitorVars, roleVars>>

nonAnthropicVars == <<engineVars, joinVars, jsonVars, refVars, allOfVars, integerVars, regexVars, selfCallVars, modelVars, streamVars, runVars, blocksVars, samplingVars, toolsVars, schemaVars, messageVars, monitorVars, roleVars>>

nonToolsVars == <<engineVars, joinVars, jsonVars, refVars, allOfVars, integerVars, regexVars, selfCallVars, modelVars, streamVars, runVars, blocksVars, samplingVars, anthropicVars, schemaVars, messageVars, monitorVars, roleVars>>

nonSchemaVars == <<engineVars, joinVars, jsonVars, refVars, allOfVars, integerVars, regexVars, selfCallVars, modelVars, streamVars, runVars, blocksVars, samplingVars, anthropicVars, toolsVars, messageVars, monitorVars, roleVars>>

nonMessageVars == <<engineVars, joinVars, jsonVars, refVars, allOfVars, integerVars, regexVars, selfCallVars, modelVars, streamVars, runVars, blocksVars, samplingVars, anthropicVars, toolsVars, schemaVars, monitorVars, roleVars>>

nonMonitorVars == <<engineVars, joinVars, jsonVars, refVars, allOfVars, integerVars, regexVars, selfCallVars, modelVars, streamVars, runVars, blocksVars, samplingVars, anthropicVars, toolsVars, schemaVars, messageVars, roleVars>>

nonRoleVars == <<engineVars, joinVars, jsonVars, refVars, allOfVars, integerVars, regexVars, selfCallVars, modelVars, streamVars, runVars, blocksVars, samplingVars, anthropicVars, toolsVars, schemaVars, messageVars, monitorVars>>

-----------------------------------------------------------------------------
(* Bounds of the engine model *)

\* size of the vocabulary
VocabSize == 2
\* longest prompt, in tokens
MaxPrompt == 2
\* advance calls a parser serves before its grammar is exhausted
MaxSteps == 3
\* the oracle's logits take the values 0..MaxLogit
MaxLogit == 1

Vocab == 0 .. (VocabSize - 1)

Prompts == UNION {[1..n -> Vocab] : n \in 1..MaxPrompt}

LogitVectors == [Vocab -> 0..MaxLogit]

\* a mask is a byte per token, 0 = disallowed; the parser hands out masks
\* with at least one allowed token
Masks == {m \in [Vocab -> {0, 1}] : \E t \in Vocab : m[t] # 0}

Max(S) == CHOOSE x \in S : \A y \in S : y <= x

Min(S) == CHOOSE x \in S : \A y \in S : x <= y

-----------------------------------------------------------------------------
(* Engine.get_next_top_k_tokens *)

\* new_tokens_logits = [self.get_logits(token_ids)]: one row of logits
LenProbs == 1

\* softmax keeps the order of the logits and their ties: array - max, then a
\* strictly increasing map; the model keeps array - max
softmax(v) == [t \in DOMAIN v |-> v[t] - Max({v[u] : u \in DOMAIN v})]

\* get_top_k(_probs)[0]: the first index of argsort(_probs)[::-1]. numpy's
\* default sort is not stable, so among equal probabilities any index may
\* come first.
TopOne(probs) == {t \in DOMAIN probs : \A u \in DOMAIN probs : probs[u] <= probs[t]}

\* masked_logits = (_logits - np.min(_logits)) * np.frombuffer(mask, uint8)
MaskedLogits(logits, mask) ==
    [t \in DOMAIN logits |-> (logits[t] - Min({logits[u] : u \in DOMAIN logits})) * mask[t]]

\* unseen_tokens = token_ids[-len(probs):][1:]
UnseenTokens(token_ids) ==
    LET n    == Len(token_ids)
        last == SubSeq(token_ids, Max({1, n - LenProbs + 1}), n)
    IN  Tail(last)

\* The issued_token values that engine_list[0] can hold. When
\* len(token_ids) == len(probs) the first prompt token is inserted at
\* index 0 of engine_list; otherwise index 0 is the entry of the one logits
\* row: masked_top_k[0] when a mask was given (it is never empty: the
\* largest probability is positive), top_k[0] when not, overridden by
\* unseen_tokens[0] when there is one.
get_next_top_k_tokens(token_ids, mask, logits) ==
    IF Len(token_ids) = LenProbs
    THEN {[token |-> token_ids[1], prob |-> "1.0", is_generated |-> FALSE]}
    ELSE IF 0 < Len(UnseenTokens(token_ids))
    THEN {[token |-> UnseenTokens(token_ids)[1], prob |-> "softmax", is_generated |-> FALSE]}
    ELSE LET top == IF mask # <<>>
                    THEN TopOne(softmax(MaskedLogits(logits, mask[1])))
                    ELSE TopOne(softmax(logits))
         IN  {[token |-> t, prob |-> "softmax", is_generated |-> TRUE] : t \in top}

-----------------------------------------------------------------------------
(* The parser, as the engine sees it *)

\* what parser.advance may return and leave behind: gen_data (None or the
\* token prefix with a mask), is_accepting() and done(). A parser that is
\* accepting allows EOS in its mask; a parser that is done returns no
\* gen_data; the grammar is exhausted after MaxSteps calls.
AdvanceOutcomes(tokens, steps) ==
    {r \in [gen : {<<>>} \cup {<<[tokens |-> tokens, mask |-> m]>> : m \in Masks},
            accepting : BOOLEAN, done : BOOLEAN] :
        /\ (r.done => r.gen = <<>>)
        /\ (r.gen = <<>> => ~r.accepting)
        /\ (steps >= MaxSteps => r.done)
        /\ (r.accepting /\ tok_eos # <<>> => r.gen[1].mask[tok_eos[1]] # 0)}

\* the token prefix after advance(engine_output): the accepted token is
\* appended
Accept(tokens, engine_output) ==
    IF engine_output = <<>> THEN tokens ELSE Append(tokens, engine_output[1].token)

-----------------------------------------------------------------------------
(* Engine.__call__ *)

\* a loop that does not test done(): `while True:`
LoopConditionAlways == TRUE

\* while not parser.done():
LoopCondition == ~p_done

\* is_in_accepting_state = parser.is_accepting() and eos_token_id is not None
InAcceptingState == p_accepting /\ tok_eos # <<>>

\* the issued token is handed on as it is, allowed by the mask or not
PostCorrectKeep(issued, isacc, mask) == issued

\* the post-correction of lines 339-342: an issued token the mask does not
\* allow becomes EOS with probability 1.0 in the accepting state
PostCorrect(issued, isacc, mask) ==
    IF isacc /\ mask[issued.token] = 0
    THEN [issued EXCEPT !.token = tok_eos[1], !.prob = "1.0"]
    ELSE issued

EngineInit ==
    /\ tok_eos \in {<<>>, <<VocabSize - 1>>}
    /\ p_prompt \in Prompts
    /\ p_tokens = p_prompt
    /\ p_done \in BOOLEAN
    /\ p_accepting = FALSE
    /\ p_steps = 0
    /\ p_afterDone = FALSE
    /\ e_pc = "created"
    /\ e_out = <<>>
    /\ e_gen = <<>>
    /\ e_isacc = FALSE
    /\ o_mask = <<>>
    /\ o_query = <<>>
    /\ o_raw = <<>>
    /\ o_log = <<>>
    /\ n_check = 0
    /\ n_adv = 0
    /\ n_gen = 0
    /\ n_oracle = 0
    /\ n_yield = 0

\* next() on the generator runs it to the loop test: `while not parser.done()`
CheckDone ==
    /\ e_pc \in {"created", "yielded"}
    /\ e_pc' = IF LoopCondition THEN "advance" ELSE "end"
    /\ n_check' = n_check + 1
    /\ UNCHANGED <<tok_eos, p_prompt, p_tokens, p_done, p_accepting, p_steps, p_afterDone,
                   e_out, e_gen, e_isacc, o_mask, o_query, o_raw, o_log,
                   n_adv, n_gen, n_oracle, n_yield>>
    /\ UNCHANGED nonEngineVars

\* gen_data, response = parser.advance(engine_output)
Advance ==
    /\ e_pc = "advance"
    /\ \E r \in AdvanceOutcomes(Accept(p_tokens, e_out), p_steps + 1) :
        /\ p_tokens' = Accept(p_tokens, e_out)
        /\ p_done' = r.done
        /\ p_accepting' = r.accepting
        /\ e_gen' = r.gen
        /\ n_gen' = IF r.gen = <<>> THEN n_gen ELSE n_gen + 1
    /\ p_steps' = p_steps + 1
    /\ p_afterDone' = (p_afterDone \/ p_done)
    /\ n_adv' = n_adv + 1
    /\ e_pc' = "branch"
    /\ UNCHANGED <<tok_eos, p_prompt, e_out, e_isacc, o_mask, o_query, o_raw, o_log,
                   n_check, n_oracle, n_yield>>
    /\ UNCHANGED nonEngineVars

\* the tokens engine_list[0] can issue over all logits the oracle may return
IssuedTokens(token_ids, mask) ==
    UNION {get_next_top_k_tokens(token_ids, mask, logits) : logits \in LogitVectors}

\* the branch `if gen_data is not None`: query the oracle, post-correct
Sample ==
    /\ e_pc = "branch"
    /\ e_gen # <<>>
    /\ LET gen_data == e_gen[1]
           isacc    == InAcceptingState
           mask     == IF isacc THEN <<>> ELSE <<gen_data.mask>>
       IN  \E issued \in IssuedTokens(gen_data.tokens, mask) :
               /\ e_isacc' = isacc
               /\ o_mask' = mask
               /\ o_query' = gen_data.tokens
               /\ o_raw' = <<issued.token>>
               /\ e_out' = <<PostCorrect(issued, isacc, gen_data.mask)>>
               /\ o_log' = Append(o_log, PostCorrect(issued, isacc, gen_data.mask).token)
    /\ n_oracle' = n_oracle + 1
    /\ e_pc' = "yield"
    /\ UNCHANGED <<tok_eos, p_prompt, p_tokens, p_done, p_accepting, p_steps, p_afterDone,
                   e_gen, n_check, n_adv, n_gen, n_yield>>
    /\ UNCHANGED nonEngineVars

\* the else branch leaves engine_output as the previous iteration set it
NoGenOutputStale == e_out

\* engine_output = None
NoGenOutput == <<>>

\* the branch `else: engine_output = None`
NoSample ==
    /\ e_pc = "branch"
    /\ e_gen = <<>>
    /\ e_out' = NoGenOutput
    /\ e_pc' = "yield"
    /\ UNCHANGED <<tok_eos, p_prompt, p_tokens, p_done, p_accepting, p_steps, p_afterDone,
                   e_gen, e_isacc, o_mask, o_query, o_raw, o_log,
                   n_check, n_adv, n_gen, n_oracle, n_yield>>
    /\ UNCHANGED nonEngineVars

\* yield response: the generator is suspended until the next next()
Yield ==
    /\ e_pc = "yield"
    /\ e_pc' = "yielded"
    /\ n_yield' = n_yield + 1
    /\ UNCHANGED <<tok_eos, p_prompt, p_tokens, p_done, p_accepting, p_steps, p_afterDone,
                   e_out, e_gen, e_isacc, o_mask, o_query, o_raw, o_log,
                   n_check, n_adv, n_gen, n_oracle>>
    /\ UNCHANGED nonEngineVars

EngineNext == CheckDone \/ Advance \/ Sample \/ NoSample \/ Yield

\* the engine variables of a run that is not about the engine
EngineParked ==
    /\ tok_eos = <<>> /\ p_prompt = <<>> /\ p_tokens = <<>>
    /\ p_done = TRUE /\ p_accepting = FALSE /\ p_steps = 0 /\ p_afterDone = FALSE
    /\ e_pc = "none" /\ e_out = <<>> /\ e_gen = <<>> /\ e_isacc = FALSE
    /\ o_mask = <<>> /\ o_query = <<>> /\ o_raw = <<>> /\ o_log = <<>>
    /\ n_check = 0 /\ n_adv = 0 /\ n_gen = 0 /\ n_oracle = 0 /\ n_yield = 0

-----------------------------------------------------------------------------
(* Grammars as languages.  A grammar is modelled by the set of texts it    *)
(* accepts; a text is the sequence of the string literals and lexemes it   *)
(* is made of, cut at MaxWord pieces.                                      *)

\* longest text, in pieces
MaxWord == 14

\* a string literal used as a grammar
Str(t) == {<<t>>}

\* lm (the null grammar): the empty text
NullGrammar == {<<>>}

\* grammar + grammar
Cat(A, B) == {w \in {a \o b : a \in A, b \in B} : Len(w) <= MaxWord}

\* select(options)
select(options) == UNION options

\* optional(g) == select([g, ""])
optional(A) == A \cup {<<>>}

RECURSIVE StarFrom(_, _)
StarFrom(A, cur) ==
    LET nxt == cur \cup Cat(cur, A)
    IN  IF nxt = cur THEN cur ELSE StarFrom(A, nxt)

\* sequence(g): zero or more g
sequence(A) == StarFrom(A, {<<>>})

\* the text a sequence of pieces spells
RECURSIVE Flat(_)
Flat(w) == IF w = <<>> THEN "" ELSE Head(w) \o Flat(Tail(w))

Range(f) == {f[i] : i \in DOMAIN f}

\* sequences without repetition over S, of length at most n
DistinctSeqs(S, n) ==
    {q \in UNION {[1..k -> S] : k \in 0..n} : \A i, j \in DOMAIN q : i # j => q[i] # q[j]}

-----------------------------------------------------------------------------
(* GenJson: separators *)

\* separators without a space
SeparatorsWithoutSpace == [item |-> ",", key |-> ":"]

\* class attributes item_separator = ", " and key_separator = ": "
DefaultSeparators == [item |-> ", ", key |-> ": "]

\* separators without the space
CompactSeparators == [item |-> ",", key |-> ":"]

\* GenJson.__init__: the separators argument replaces the class attributes
\* when it is not None
GenJsonSeparators(separators) ==
    IF separators # <<>> THEN separators[1] ELSE DefaultSeparators

\* json(): whitespace_flexible with separators None picks (",", ":"), and
\* sets the skip regex; otherwise the separators argument is passed on as
\* it is and there is no skip regex
JsonArguments(separators, whitespace_flexible) ==
    IF whitespace_flexible
    THEN [separators |-> IF separators = <<>> THEN <<CompactSeparators>> ELSE separators,
          skip_regex |-> <<"[\\x20\\x0A\\x0D\\x09]+">>]
    ELSE [separators |-> separators, skip_regex |-> <<>>]

-----------------------------------------------------------------------------
(* GenJson._join *)

\* _join whose optional first element passes prefixed=True to the branch
\* that skips it
RECURSIVE _joinSkipPrefixed(_, _, _, _)
_joinSkipPrefixed(elements, required, prefixed, sep) ==
    IF elements = <<>>
    THEN NullGrammar
    ELSE LET elem        == Head(elements)
             is_required == Head(required)
             rest(pre)   == _joinSkipPrefixed(Tail(elements), Tail(required), pre, sep)
         IN  IF prefixed
             THEN IF is_required
                  THEN Cat(Cat(Str(sep), elem), rest(TRUE))
                  ELSE Cat(optional(Cat(Str(sep), elem)), rest(TRUE))
             ELSE IF is_required
                  THEN Cat(elem, rest(TRUE))
                  ELSE select({rest(TRUE), Cat(elem, rest(TRUE))})

\* GenJson._join(elements, required, prefixed) with self.item_separator = sep;
\* elements is a sequence of grammars, required a sequence of booleans
RECURSIVE _join(_, _, _, _)
_join(elements, required, prefixed, sep) ==
    IF elements = <<>>
    THEN NullGrammar
    ELSE LET elem        == Head(elements)
             is_required == Head(required)
             rest(pre)   == _join(Tail(elements), Tail(required), pre, sep)
         IN  IF prefixed
             THEN IF is_required
                  THEN Cat(Cat(Str(sep), elem), rest(TRUE))
                  ELSE Cat(optional(Cat(Str(sep), elem)), rest(TRUE))
             ELSE IF is_required
                  THEN Cat(elem, rest(TRUE))
                  ELSE select({rest(FALSE), Cat(elem, rest(TRUE))})

\* elements are told apart by their text: e1, e2, ...
Element(i) == Str("e" \o ToString(i))

\* most elements in a call of _join
MaxElems == 4

JoinCalls ==
    [n : 0..MaxElems, required : UNION {[1..k -> BOOLEAN] : k \in 0..MaxElems},
     prefixed : BOOLEAN, sep : {DefaultSeparators.item, CompactSeparators.item}]

JoinInit ==
    /\ jn_call \in {c \in JoinCalls : Len(c.required) = c.n}
    /\ jn_out = <<>>

JoinParked == jn_call = <<>> /\ jn_out = <<>>

\* self._join(elements=..., required=..., prefixed=...)
BuildJoin ==
    /\ jn_out = <<>>
    /\ jn_out' = <<_join([i \in 1..jn_call.n |-> Element(i)], jn_call.required,
                         jn_call.prefixed, jn_call.sep)>>
    /\ UNCHANGED jn_call
    /\ UNCHANGED nonJoinVars

-----------------------------------------------------------------------------
(* GenJson.json, GenJson.object, GenJson.array and json() *)

\* property names of the schemas
Names == {"a", "b", "c"}

\* json_dumps(name): the key as it is written in a JSON text
json_dumps(name) == "\"" \o name \o "\""

\* texts of the lexeme for a JSON string used as a key,
\* "([^"\\]|\\["\\/bfnrt]|\\u[0-9a-fA-F]{4})*": the quoted names, and the
\* name a spelled with a \u escape
JsonStringSamples == {json_dumps(n) : n \in Names} \cup {"\"\\u0061\""}

\* GenJson.json for a schema that is only a type: the texts of its grammar
\* (for the integer and string lexemes, one text each)
JsonLeaf(schema) ==
    CASE schema = "null"    -> Str("null")
      [] schema = "boolean" -> select({Str("true"), Str("false")})
      [] schema = "integer" -> Str("1")
      [] schema = "string"  -> Str("\"x\"")

\* the result of a builder that raised
Raised(error) == [error |-> error, grammar |-> {}]

\* the result of a builder that returned a grammar
Built(grammar) == [error |-> "", grammar |-> grammar]

\* properties.get(name, additional_properties)
PropertiesGet(properties, name, default) ==
    IF \E i \in DOMAIN properties : properties[i].name = name
    THEN properties[CHOOSE i \in DOMAIN properties : properties[i].name = name].schema
    ELSE default

\* as_regular_grammar(And([lexeme(<JSON string>), Not(lexeme('|'.join(keys)))]))
\* when there are keys, self.string() when there are none
additional_key_grammar(keys) ==
    IF Len(keys) > 0
    THEN {<<k>> : k \in JsonStringSamples \ Range(keys)}
    ELSE {<<k>> : k \in JsonStringSamples}

\* the names object() iterates over: the properties in order, then the
\* required keys that are not properties
ObjectNames(properties, required) ==
    [i \in DOMAIN properties |-> properties[i].name]
        \o SelectSeq(required, LAMBDA r : \A i \in DOMAIN properties : properties[i].name # r)

\* GenJson.object(properties, additional_properties, required); properties
\* is a sequence of [name, schema], additional_properties is "false" or a
\* schema, seps are self.item_separator and self.key_separator
object(properties, additional_properties, required, seps) ==
    IF /\ \E k \in Range(required) : \A i \in DOMAIN properties : properties[i].name # k
       /\ additional_properties = "false"
    THEN Raised("ValueError")
    ELSE LET names == ObjectNames(properties, required)
             keys  == [i \in DOMAIN names |-> json_dumps(names[i])]
             required_items == [i \in DOMAIN names |-> names[i] \in Range(required)]
             grammars ==
                 [i \in DOMAIN names |->
                     Cat(Cat(Str(keys[i]), Str(seps.key)),
                         JsonLeaf(PropertiesGet(properties, names[i], additional_properties)))]
             additional_item_grammar ==
                 Cat(Cat(additional_key_grammar(keys), Str(seps.key)),
                     JsonLeaf(additional_properties))
             additional_items_grammar ==
                 Cat(sequence(Cat(additional_item_grammar, Str(seps.item))),
                     additional_item_grammar)
             elements == IF additional_properties # "false"
                         THEN Append(grammars, additional_items_grammar)
                         ELSE grammars
             flags    == IF additional_properties # "false"
                         THEN Append(required_items, FALSE)
                         ELSE required_items
         IN  Built(Cat(Cat(Str("{"), _join(elements, flags, FALSE, seps.item)), Str("}")))

\* each remaining item optional on its own, whatever precedes it
RECURSIVE IndependentOptionals(_, _)
IndependentOptionals(rest, sep) ==
    IF rest = <<>> THEN NullGrammar
    ELSE Cat(optional(Cat(Str(sep), Head(rest))), IndependentOptionals(Tail(rest), sep))

\* the loop `for item in reversed(rest): tail = optional(sep + item + tail)`
RECURSIVE NestedOptionals(_, _)
NestedOptionals(rest, sep) ==
    IF rest = <<>> THEN NullGrammar
    ELSE optional(Cat(Cat(Str(sep), Head(rest)), NestedOptionals(Tail(rest), sep)))

\* the loop `for item in rest: lm += sep + item`
RECURSIVE Following(_, _)
Following(rest, sep) ==
    IF rest = <<>> THEN NullGrammar
    ELSE Cat(Cat(Str(sep), Head(rest)), Following(Tail(rest), sep))

\* GenJson.array(prefix_items_schema, item_schema, min_items, max_items);
\* max_items is <<>> (None) or <<n>>, item_schema is "false" or a schema
array(prefix_items_schema, item_schema, min_items, max_items, seps) ==
    IF Len(prefix_items_schema) < min_items /\ item_schema = "false"
    THEN Raised("ValueError")
    ELSE IF max_items # <<>> /\ max_items[1] < min_items
    THEN Raised("ValueError")
    ELSE LET n_to_add == IF max_items = <<>>
                         THEN Max({Len(prefix_items_schema), min_items})
                         ELSE max_items[1]
             \* the loop breaks at the first index past prefixItems when
             \* items is false
             n_added  == IF item_schema = "false"
                         THEN Min({n_to_add, Len(prefix_items_schema)})
                         ELSE n_to_add
             item(i)  == IF i < Len(prefix_items_schema)
                         THEN JsonLeaf(prefix_items_schema[i + 1])
                         ELSE JsonLeaf(item_schema)
             n_required     == Min({n_added, min_items})
             required_items == [k \in 1..n_required |-> item(k - 1)]
             listed         == [k \in 1..(n_added - n_required) |-> item(n_required + k - 1)]
             optional_items ==
                 IF max_items = <<>> /\ item_schema # "false"
                 THEN Append(listed,
                             Cat(JsonLeaf(item_schema),
                                 sequence(Cat(Str(seps.item), JsonLeaf(item_schema)))))
                 ELSE listed
             lm1 == Str("[")
             lm2 == IF required_items # <<>>
                    THEN Cat(Cat(lm1, Head(required_items)),
                             Following(Tail(required_items), seps.item))
                    ELSE lm1
             tail == Cat(Head(optional_items),
                         NestedOptionals(Tail(optional_items), seps.item))
             lm3 == IF optional_items # <<>>
                    THEN IF required_items # <<>>
                         THEN Cat(lm2, optional(Cat(Str(seps.item), tail)))
                         ELSE Cat(lm2, optional(tail))
                    ELSE lm2
         IN  Built(Cat(lm3, Str("]")))

\* GenJson.json for a schema with "type": the dispatch to object and array,
\* with the defaults of the keywords that are absent
GenJson_json(schema, seps) ==
    IF schema.type = "object"
    THEN object(schema.properties, schema.additionalProperties, schema.required, seps)
    ELSE array(schema.prefixItems, schema.items, schema.minItems, schema.maxItems, seps)

\* json(schema=..., separators=..., whitespace_flexible=...): the body
\* GenJson(schema, separators).root() and the skip_regex given to subgrammar
json(schema, separators, whitespace_flexible) ==
    LET args == JsonArguments(separators, whitespace_flexible)
        body == GenJson_json(schema, GenJsonSeparators(args.separators))
    IN  [error |-> body.error, skip_regex |-> args.skip_regex, grammar |-> body.grammar]

\* most properties in a schema
MaxProps == 2
\* most required keys in a schema
MaxRequired == 2
\* most prefixItems in a schema
MaxPrefix == 2
\* largest minItems and maxItems
MaxItems == 3

\* the schemas of prefixItems, by position
PrefixSchemas == <<"integer", "string", "null", "integer", "string", "null">>

PropertyLists ==
    {q \in UNION {[1..k -> [name : Names, schema : {"integer", "string"}]] : k \in 0..MaxProps} :
        \A i, j \in DOMAIN q : i # j => q[i].name # q[j].name}

ObjectSchemas ==
    [type : {"object"}, properties : PropertyLists,
     required : DistinctSeqs(Names, MaxRequired), additionalProperties : {"false", "null"},
     prefixItems : {<<>>}, items : {"false"}, minItems : {0}, maxItems : {<<>>}]

ArraySchemas ==
    [type : {"array"}, properties : {<<>>}, required : {<<>>}, additionalProperties : {"false"},
     prefixItems : {SubSeq(PrefixSchemas, 1, k) : k \in 0..MaxPrefix},
     items : {"false", "boolean"}, minItems : 0..MaxItems,
     maxItems : {<<>>} \cup {<<n>> : n \in 0..MaxItems}]

JsonCalls ==
    [schema : ObjectSchemas \cup ArraySchemas,
     separators : {<<>>, <<CompactSeparators>>, <<DefaultSeparators>>},
     whitespace_flexible : BOOLEAN]

JsonInit ==
    /\ gj_call \in JsonCalls
    /\ gj_out = <<>>

JsonParked == gj_call = <<>> /\ gj_out = <<>>

\* json() of an object schema
JsonObject ==
    /\ gj_out = <<>>
    /\ gj_call.schema.type = "object"
    /\ gj_out' = <<json(gj_call.schema, gj_call.separators, gj_call.whitespace_flexible)>>
    /\ UNCHANGED gj_call
    /\ UNCHANGED nonJsonVars

\* json() of an array schema
JsonArray ==
    /\ gj_out = <<>>
    /\ gj_call.schema.type = "array"
    /\ gj_out' = <<json(gj_call.schema, gj_call.separators, gj_call.whitespace_flexible)>>
    /\ UNCHANGED gj_call
    /\ UNCHANGED nonJsonVars
-----------------------------------------------------------------------------
(* GenJson.ref, the closures it creates, and the $ref paths of json and allOf *)

\* definitions in the schema, "#/$defs/1" .. "#/$defs/NDefs"
NDefs == 2
\* ref() calls from outside
MaxCalls == 2
\* the interpreter's recursion limit, in frames
MaxDepth == 24

Uris == 1..NDefs

\* a definition is one of
\*   object, target 0:       {"type": "object"}
\*   object, target t:       {"type": "object", "properties": {"next": {"$ref": t}}}
\*   object, t, sibling:     the same with "next": {"$ref": t, "type": "object"}
\*   ref, target t:          {"$ref": t}
\*   allOf, target t:        {"allOf": [{"$ref": t}]}
DefSchemas ==
    {[kind |-> "object", target |-> 0, sibling |-> FALSE]}
        \cup [kind : {"object"}, target : Uris, sibling : BOOLEAN]
        \cup [kind : {"ref", "allOf"}, target : Uris, sibling : {FALSE}]

Frame(op, uri) == [op |-> op, uri |-> uri]

Top == rf_stack[Len(rf_stack)]

Pop == SubSeq(rf_stack, 1, Len(rf_stack) - 1)

NoValue == [kind |-> "none", of |-> 0]

Grammar(u) == [kind |-> "grammar", of |-> u]

\* a call: a new frame, or RecursionError when the stack is full
Call(frame) ==
    IF Len(rf_stack) < MaxDepth
    THEN /\ rf_stack' = Append(rf_stack, frame)
         /\ rf_mode' = "call"
         /\ rf_result' = rf_result
    ELSE /\ rf_stack' = rf_stack
         /\ rf_mode' = "raise"
         /\ rf_result' = "RecursionError"

\* `abspath not in self._defs`
NotInDefs(defs, abspath) == abspath \notin defs

\* the reference is never seen
NeverInSelfCall(slot, u) == FALSE

\* `reference is not None`
InSelfCall(slot, u) == slot[u] # 0

RefInit ==
    /\ rf_schema \in [Uris -> DefSchemas]
    /\ rf_stack = <<>>
    /\ rf_mode = "idle"
    /\ rf_ret = NoValue
    /\ rf_defs = {}
    /\ rf_thunks = [u \in Uris |-> 0]
    /\ rf_slot = [u \in Uris |-> 0]
    /\ rf_cache = {}
    /\ rf_refs = <<>>
    /\ rf_started = [u \in Uris |-> 0]
    /\ rf_compiled = [u \in Uris |-> 0]
    /\ rf_calls = 0
    /\ rf_result = "none"

RefParked ==
    /\ rf_schema = <<>>
    /\ rf_stack = <<>>
    /\ rf_mode = "none"
    /\ rf_ret = NoValue
    /\ rf_defs = {}
    /\ rf_thunks = <<>>
    /\ rf_slot = <<>>
    /\ rf_cache = {}
    /\ rf_refs = <<>>
    /\ rf_started = <<>>
    /\ rf_compiled = <<>>
    /\ rf_calls = 0
    /\ rf_result = "none"

\* json() of the root {"$defs": ..., "$ref": u}, which has no sibling keys:
\* self.ref(reference=u)
RefCall ==
    /\ rf_mode = "idle"
    /\ rf_calls < MaxCalls
    /\ \E u \in Uris : rf_stack' = <<Frame("ref", u)>>
    /\ rf_mode' = "call"
    /\ rf_calls' = rf_calls + 1
    /\ rf_ret' = NoValue
    /\ rf_result' = "none"
    /\ UNCHANGED <<rf_schema, rf_defs, rf_thunks, rf_slot, rf_cache, rf_refs, rf_started, rf_compiled>>
    /\ UNCHANGED nonRefVars

\* ref(): create the closure when the URI has none, then call it
Ref ==
    /\ rf_mode = "call" /\ Top.op = "ref"
    /\ IF NotInDefs(rf_defs, Top.uri)
       THEN /\ rf_defs' = rf_defs \cup {Top.uri}
            /\ rf_thunks' = [rf_thunks EXCEPT ![Top.uri] = @ + 1]
            \* a new closure has its own thread_local and its own cache
            /\ rf_slot' = [rf_slot EXCEPT ![Top.uri] = 0]
            /\ rf_cache' = rf_cache \ {Top.uri}
       ELSE UNCHANGED <<rf_defs, rf_thunks, rf_slot, rf_cache>>
    /\ Call(Frame("closure", Top.uri))
    /\ UNCHANGED <<rf_schema, rf_ret, rf_refs, rf_started, rf_compiled, rf_calls>>
    /\ UNCHANGED nonRefVars

\* wrapped() of a closure: return the reference when there is one, else
\* install a DeferredReference and call the cached body
ClosureEnter ==
    /\ rf_mode = "call" /\ Top.op = "closure"
    /\ LET u == Top.uri
       IN  IF InSelfCall(rf_slot, u)
           THEN /\ rf_ret' = [kind |-> "deferred", of |-> rf_slot[u]]
                /\ rf_refs' = [rf_refs EXCEPT ![rf_slot[u]].handed = TRUE]
                /\ rf_mode' = "return"
                /\ UNCHANGED <<rf_stack, rf_slot, rf_started, rf_result>>
           ELSE IF u \in rf_cache
           THEN \* the body's result comes from functools.cache; value set, slot deleted
                /\ rf_refs' = Append(rf_refs, [uri |-> u, value |-> u, aborted |-> FALSE, handed |-> FALSE])
                /\ rf_ret' = Grammar(u)
                /\ rf_mode' = "return"
                /\ UNCHANGED <<rf_stack, rf_slot, rf_started, rf_result>>
           ELSE /\ rf_refs' = Append(rf_refs, [uri |-> u, value |-> 0, aborted |-> FALSE, handed |-> FALSE])
                /\ rf_slot' = [rf_slot EXCEPT ![u] = Len(rf_refs) + 1]
                /\ rf_started' = [rf_started EXCEPT ![u] = @ + 1]
                /\ rf_ret' = rf_ret
                /\ Call(Frame("json_def", u))
    /\ UNCHANGED <<rf_schema, rf_defs, rf_thunks, rf_cache, rf_compiled, rf_calls>>
    /\ UNCHANGED nonRefVars

\* GenJson.json: the contents of a definition, the schema of the property
\* next, or the schema allOf combined
Json ==
    /\ rf_mode = "call" /\ Top.op \in {"json_def", "json_child", "json_inlined"}
    /\ LET d == rf_schema[Top.uri]
       IN  CASE Top.op = "json_inlined" -> Call(Frame("object", Top.uri))
             [] Top.op = "json_child" ->
                  IF d.sibling THEN Call(Frame("allOf", d.target))
                  ELSE Call(Frame("ref", d.target))
             [] Top.op = "json_def" ->
                  CASE d.kind = "allOf"  -> Call(Frame("allOf", d.target))
                    [] d.kind = "ref"    -> Call(Frame("ref", d.target))
                    [] d.kind = "object" -> Call(Frame("object", Top.uri))
    /\ UNCHANGED <<rf_schema, rf_ret, rf_defs, rf_thunks, rf_slot, rf_cache, rf_refs,
                   rf_started, rf_compiled, rf_calls>>
    /\ UNCHANGED nonRefVars

\* GenJson.object: json() of the property's schema
Object ==
    /\ rf_mode = "call" /\ Top.op = "object"
    /\ IF rf_schema[Top.uri].target = 0
       THEN /\ rf_ret' = Grammar(0)
            /\ rf_mode' = "return"
            /\ UNCHANGED <<rf_stack, rf_result>>
       ELSE /\ rf_ret' = rf_ret
            /\ Call(Frame("json_child", Top.uri))
    /\ UNCHANGED <<rf_schema, rf_defs, rf_thunks, rf_slot, rf_cache, rf_refs,
                   rf_started, rf_compiled, rf_calls>>
    /\ UNCHANGED nonRefVars

\* GenJson.allOf of {"allOf": [{"$ref": t}], ...}: add_schema(parent) reaches
\* handle_keyword($ref), which calls add_schema on the contents of t
AllOf ==
    /\ rf_mode = "call" /\ Top.op = "allOf"
    /\ Call(Frame("add_schema", Top.uri))
    /\ UNCHANGED <<rf_schema, rf_ret, rf_defs, rf_thunks, rf_slot, rf_cache, rf_refs,
                   rf_started, rf_compiled, rf_calls>>
    /\ UNCHANGED nonRefVars

\* add_schema of the contents of a definition: an object's type and
\* properties are recorded, a $ref or an allOf is followed
AddSchema ==
    /\ rf_mode = "call" /\ Top.op = "add_schema"
    /\ IF rf_schema[Top.uri].kind = "object"
       THEN /\ rf_ret' = [kind |-> "merged", of |-> Top.uri]
            /\ rf_mode' = "return"
            /\ UNCHANGED <<rf_stack, rf_result>>
       ELSE /\ rf_ret' = rf_ret
            /\ Call(Frame("add_schema", rf_schema[Top.uri].target))
    /\ UNCHANGED <<rf_schema, rf_defs, rf_thunks, rf_slot, rf_cache, rf_refs,
                   rf_started, rf_compiled, rf_calls>>
    /\ UNCHANGED nonRefVars

Caller == rf_stack[Len(rf_stack) - 1]

\* the body of a closure returns: functools.cache keeps the node, the
\* reference gets its value and the slot is deleted
ClosureExit ==
    /\ rf_mode = "return" /\ Len(rf_stack) > 1
    /\ Top.op = "json_def" /\ Caller.op = "closure"
    /\ LET u == Caller.uri
       IN  /\ rf_cache' = rf_cache \cup {u}
           /\ rf_compiled' = [rf_compiled EXCEPT ![u] = @ + 1]
           /\ rf_refs' = [rf_refs EXCEPT ![rf_slot[u]].value = u]
           /\ rf_slot' = [rf_slot EXCEPT ![u] = 0]
           /\ rf_ret' = Grammar(u)
    /\ rf_stack' = Pop
    /\ UNCHANGED <<rf_schema, rf_mode, rf_defs, rf_thunks, rf_started, rf_calls, rf_result>>
    /\ UNCHANGED nonRefVars

\* add_schema is back in allOf: self.json(json_schema=combined_schema), the
\* combined schema being the object the $ref chain ended at
AllOfCombine ==
    /\ rf_mode = "return" /\ Len(rf_stack) > 1
    /\ Top.op = "add_schema" /\ Caller.op = "allOf"
    /\ rf_stack' = Append(Pop, Frame("json_inlined", rf_ret.of))
    /\ rf_mode' = "call"
    /\ rf_ret' = NoValue
    /\ UNCHANGED <<rf_schema, rf_defs, rf_thunks, rf_slot, rf_cache, rf_refs,
                   rf_started, rf_compiled, rf_calls, rf_result>>
    /\ UNCHANGED nonRefVars

\* any other return to a caller, which returns in turn
Return ==
    /\ rf_mode = "return" /\ Len(rf_stack) > 1
    /\ ~(Top.op = "json_def" /\ Caller.op = "closure")
    /\ ~(Top.op = "add_schema" /\ Caller.op = "allOf")
    /\ rf_stack' = Pop
    /\ rf_ret' = IF Caller.op = "object" THEN Grammar(0) ELSE rf_ret
    /\ UNCHANGED <<rf_schema, rf_mode, rf_defs, rf_thunks, rf_slot, rf_cache, rf_refs,
                   rf_started, rf_compiled, rf_calls, rf_result>>
    /\ UNCHANGED nonRefVars

\* the outermost ref() returns
Finish ==
    /\ rf_mode = "return" /\ Len(rf_stack) = 1
    /\ rf_stack' = <<>>
    /\ rf_mode' = "idle"
    /\ rf_result' = rf_ret.kind
    /\ UNCHANGED <<rf_schema, rf_ret, rf_defs, rf_thunks, rf_slot, rf_cache, rf_refs,
                   rf_started, rf_compiled, rf_calls>>
    /\ UNCHANGED nonRefVars

\* an exception leaves a running closure: the slot is deleted, nothing is
\* cached and the reference keeps no value
ClosureRaise ==
    /\ rf_mode = "raise" /\ rf_stack # <<>>
    /\ Top.op = "closure"
    /\ rf_refs' = [rf_refs EXCEPT ![rf_slot[Top.uri]].aborted = TRUE]
    /\ rf_slot' = [rf_slot EXCEPT ![Top.uri] = 0]
    /\ rf_stack' = Pop
    /\ UNCHANGED <<rf_schema, rf_mode, rf_ret, rf_defs, rf_thunks, rf_cache,
                   rf_started, rf_compiled, rf_calls, rf_result>>
    /\ UNCHANGED nonRefVars

\* the frames up to the innermost running closure, or none of them
RECURSIVE UpToClosure(_)
UpToClosure(stack) ==
    IF stack = <<>> \/ stack[Len(stack)].op = "closure" THEN stack
    ELSE UpToClosure(SubSeq(stack, 1, Len(stack) - 1))

\* an exception leaves the frames that have no handler
Unwind ==
    /\ rf_mode = "raise" /\ rf_stack # <<>>
    /\ Top.op # "closure"
    /\ rf_stack' = UpToClosure(rf_stack)
    /\ UNCHANGED <<rf_schema, rf_mode, rf_ret, rf_defs, rf_thunks, rf_slot, rf_cache, rf_refs,
                   rf_started, rf_compiled, rf_calls, rf_result>>
    /\ UNCHANGED nonRefVars

\* the exception reaches the caller of ref()
Escape ==
    /\ rf_mode = "raise" /\ rf_stack = <<>>
    /\ rf_mode' = "idle"
    /\ UNCHANGED <<rf_schema, rf_stack, rf_ret, rf_defs, rf_thunks, rf_slot, rf_cache, rf_refs,
                   rf_started, rf_compiled, rf_calls, rf_result>>
    /\ UNCHANGED nonRefVars

-----------------------------------------------------------------------------
(* GenJson.allOf: merging type, required and const *)

\* most subschemas in an allOf list
MaxSub == 2

JSONType == {"null", "boolean", "integer", "number", "string", "array", "object"}

\* JSON values used as const: a value is [t, n], t its JSON kind
JsonInt(n) == [t |-> "int", n |-> n]

JsonTrue == [t |-> "bool", n |-> 1]

JsonStr == [t |-> "str", n |-> 0]

ConstValues == {JsonInt(1), JsonInt(2), JsonTrue, JsonStr}

\* Python's `a != b` on these values: True equals 1
PyNotEqual(a, b) ==
    IF a.t = "str" \/ b.t = "str" THEN a # b ELSE a.n # b.n

\* a subschema of the list: "type" absent or a set, "required", "const" absent or a value
Subschemas ==
    [type : {<<>>, <<{"integer"}>>, <<{"number"}>>, <<{"string"}>>, <<{"boolean"}>>,
             <<{"string", "number"}>>},
     required : {{}, {"a"}, {"b"}},
     const : {<<>>} \cup {<<v>> : v \in ConstValues}]

\* the nonlocals of allOf before add_schema(parent_schema)
AllOfStart == [error |-> "", type |-> JSONType, required |-> {}, const |-> <<>>]

\* handle_keyword(type, value)
HandleType(acc, value) ==
    LET value_set == IF "number" \in value THEN value \cup {"integer"} ELSE value
        type      == acc.type \cap value_set
    IN  IF type = {}
        THEN [acc EXCEPT !.type = type, !.error = "ValueError: allOf with conflicting types"]
        ELSE [acc EXCEPT !.type = type]

\* handle_keyword(required, value)
HandleRequired(acc, value) == [acc EXCEPT !.required = acc.required \cup value]

\* handle_keyword(const, value)
HandleConst(acc, value) ==
    IF acc.const # <<>> /\ PyNotEqual(acc.const[1], value)
    THEN [acc EXCEPT !.error = "ValueError: allOf with multiple conflicting const values"]
    ELSE [acc EXCEPT !.const = <<value>>]

\* add_schema(schema): its keys in the order type, required, const; an
\* exception ends the merge
add_schema(acc, schema) ==
    LET a1 == IF acc.error = "" /\ schema.type # <<>> THEN HandleType(acc, schema.type[1]) ELSE acc
        a2 == IF a1.error = "" THEN HandleRequired(a1, schema.required) ELSE a1
        a3 == IF a2.error = "" /\ schema.const # <<>> THEN HandleConst(a2, schema.const[1]) ELSE a2
    IN  a3

\* handle_keyword(allOf, value): add_schema on each subschema in turn
RECURSIVE MergeAll(_, _)
MergeAll(acc, schemas) ==
    IF schemas = <<>> THEN acc
    ELSE MergeAll(add_schema(acc, Head(schemas)), Tail(schemas))

\* jsonschema.validate(instance=value, schema={"type": types}) succeeds
ValidatesType(value, types) ==
    CASE value.t = "int"  -> types \cap {"integer", "number"} # {}
      [] value.t = "bool" -> "boolean" \in types
      [] value.t = "str"  -> "string" \in types

\* GenJson.json of the combined schema {type, required?, const?}: the const
\* branch, then the type branch
JsonCombined(acc) ==
    IF acc.const # <<>>
    THEN IF acc.required # {}
         THEN "NotImplementedError: const with sibling keys"
         ELSE IF ~ValidatesType(acc.const[1], acc.type)
         THEN "ValidationError"
         ELSE ""
    ELSE ""

\* GenJson.allOf(parent_schema={"allOf": schemas})
allOf(schemas) ==
    LET merged == MergeAll(AllOfStart, schemas)
    IN  IF merged.error # "" THEN merged
        ELSE [merged EXCEPT !.error = JsonCombined(merged)]

AllOfCalls == UNION {[1..n -> Subschemas] : n \in 1..MaxSub}

AllOfInit ==
    /\ ao_call \in AllOfCalls
    /\ ao_out = <<>>

AllOfParked == ao_call = <<>> /\ ao_out = <<>>

CallAllOf ==
    /\ ao_out = <<>>
    /\ ao_out' = <<allOf(ao_call)>>
    /\ UNCHANGED ao_call
    /\ UNCHANGED nonAllOfVars

-----------------------------------------------------------------------------
(* GenJson.json (integer branch) and GenJson.integer *)

\* A number is [kind, k]: kind "int" (Python int, exact) or "float", and k
\* its value counted in halves (k = 3 is 1.5).  A float has MantissaBits
\* bits of mantissa, so that integers are exact up to 2^MantissaBits and
\* two apart above it, as for a double with 53 bits.

\* bits of mantissa of the scaled float
MantissaBits == 3

\* the largest integer below which every integer is a float
ExactLimit == 2 ^ MantissaBits

Abs(k) == IF k < 0 THEN -k ELSE k

\* a count of halves a float can hold
RECURSIVE Representable(_)
Representable(a) ==
    IF a < 2 ^ MantissaBits THEN TRUE
    ELSE a % 2 = 0 /\ Representable(a \div 2)

\* the mantissa of a representable count
RECURSIVE Mantissa(_)
Mantissa(a) == IF a < 2 ^ MantissaBits THEN a ELSE Mantissa(a \div 2)

FloatGrid == {k \in -(8 * ExactLimit)..(8 * ExactLimit) : Representable(Abs(k))}

\* round to nearest, ties to the even mantissa
RoundToFloat(k) ==
    IF k \in FloatGrid THEN k
    ELSE LET below == Max({f \in FloatGrid : f < k})
             above == Min({f \in FloatGrid : f > k})
         IN  IF k - below < above - k THEN below
             ELSE IF above - k < k - below THEN above
             ELSE IF Mantissa(Abs(below)) % 2 = 0 THEN below ELSE above

\* `x += d` for an integer d: exact on an int, rounded on a float
PyAdd(x, d) ==
    IF x.kind = "int" THEN [x EXCEPT !.k = x.k + 2 * d]
    ELSE [x EXCEPT !.k = RoundToFloat(x.k + 2 * d)]

\* math.ceil, math.floor: an integer, from the value in halves
Ceil(x) == -((-x.k) \div 2)

Floor(x) == x.k \div 2

\* `x != int(x)`
NotIntegral(x) == x.k % 2 # 0

\* int(x) of an integral x
ToInt(x) == x.k \div 2

\* the minimum side of GenJson.integer
IntegerMinimum(minimum, exclusiveMinimum) ==
    IF minimum = <<>> THEN <<>>
    ELSE IF exclusiveMinimum
    THEN IF NotIntegral(minimum[1]) THEN <<Ceil(minimum[1])>>
         ELSE <<ToInt(PyAdd(minimum[1], 1))>>
    ELSE <<Ceil(minimum[1])>>

\* the maximum side of GenJson.integer
IntegerMaximum(maximum, exclusiveMaximum) ==
    IF maximum = <<>> THEN <<>>
    ELSE IF exclusiveMaximum
    THEN IF NotIntegral(maximum[1]) THEN <<Floor(maximum[1])>>
         ELSE <<ToInt(PyAdd(maximum[1], -1))>>
    ELSE <<Floor(maximum[1])>>

\* GenJson.integer: the arguments of rx_int_range
integer(minimum, maximum, exclusiveMinimum, exclusiveMaximum) ==
    [lo |-> IntegerMinimum(minimum, exclusiveMinimum),
     hi |-> IntegerMaximum(maximum, exclusiveMaximum)]

\* GenJson.json, type integer: the numeric exclusive bounds become a bound
\* and a flag
JsonInteger(call) ==
    LET use_emin == call.exclusiveMinimum # <<>>
                    /\ (call.minimum = <<>> \/ call.exclusiveMinimum[1].k >= call.minimum[1].k)
        use_emax == call.exclusiveMaximum # <<>>
                    /\ (call.maximum = <<>> \/ call.exclusiveMaximum[1].k <= call.maximum[1].k)
    IN  integer(IF use_emin THEN call.exclusiveMinimum ELSE call.minimum,
                IF use_emax THEN call.exclusiveMaximum ELSE call.maximum,
                use_emin, use_emax)

\* the bounds tried: small ints and floats, halves among them, and the
\* values around ExactLimit
BoundValues ==
    [kind : {"int"}, k : {2 * n : n \in {-2, -1, 0, 1, 2, ExactLimit, ExactLimit + 1}}]
        \cup [kind : {"float"}, k : {-3, -2, -1, 0, 1, 2, 3, 2 * ExactLimit, 2 * ExactLimit + 4}]

OptionalBounds == {<<>>} \cup {<<v>> : v \in BoundValues}

IntegerCalls ==
    [minimum : OptionalBounds, maximum : OptionalBounds,
     exclusiveMinimum : OptionalBounds, exclusiveMaximum : OptionalBounds]

IntegerInit ==
    /\ ir_call \in IntegerCalls
    /\ ir_out = <<>>

IntegerParked == ir_call = <<>> /\ ir_out = <<>>

CallJsonInteger ==
    /\ ir_out = <<>>
    /\ ir_out' = <<JsonInteger(ir_call)>>
    /\ UNCHANGED ir_call
    /\ UNCHANGED nonIntegerVars

-----------------------------------------------------------------------------
(* Transformer (library/_regex.py): a parsed regex becomes a byte grammar *)

\* A node of the tree that re's parser returns and a node of the grammar
\* have the same shape: an opcode, a name, two integers and the children.
Node(op, arg, a, b, kids) == [op |-> op, arg |-> arg, a |-> a, b |-> b, kids |-> kids]

\* code points of the characters used
ord ==
    ("a" :> 97) @@ ("b" :> 98) @@ ("c" :> 99) @@ ("d" :> 100) @@ ("g" :> 103)
    @@ ("o" :> 111) @@ ("s" :> 115) @@ ("t" :> 116) @@ ("x" :> 120) @@ ("y" :> 121)
    @@ ("z" :> 122) @@ ("A" :> 65) @@ ("Z" :> 90) @@ ("_" :> 95)
    @@ ("0" :> 48) @@ ("5" :> 53) @@ ("9" :> 57) @@ ("newline" :> 10)
    @@ ("space" :> 32) @@ ("tab" :> 9) @@ ("cr" :> 13) @@ ("ff" :> 12) @@ ("vt" :> 11)
    @@ ("e_acute" :> 233) @@ ("arabic_three" :> 1635) @@ ("euro" :> 8364)

\* str.encode("utf-8") of one code point
Utf8(cp) ==
    IF cp < 128 THEN <<cp>>
    ELSE IF cp < 2048 THEN <<192 + (cp \div 64), 128 + (cp % 64)>>
    ELSE <<224 + (cp \div 4096), 128 + ((cp \div 64) % 64), 128 + (cp % 64)>>

\* str.encode("utf-8") of a string of code points
RECURSIVE Encode(_)
Encode(s) == IF s = <<>> THEN <<>> ELSE Utf8(Head(s)) \o Encode(Tail(s))

\* ---- the grammar constructors ----

Byte(b) == Node("Byte", "", b, b, <<>>)

byte_range(low, high) == Node("ByteRange", "", low, high, <<>>)

Join(values) == Node("Join", "", 0, 0, values)

Select(values) == Node("Select", "", 0, 0, values)

\* an exception raised while the grammar is built
Raise(exception) == Node("Raise", exception, 0, 0, <<>>)

\* select([x]) is x
select_grammar(options) == IF Len(options) = 1 THEN options[1] ELSE Select(options)

\* the empty string
Null == Node("Null", "", 0, 0, <<>>)

\* optional(value) is select([value, ""])
optional_grammar(value) == Select(<<value, Null>>)

zero_or_more(value) == Node("ZeroOrMore", "", 0, 0, <<value>>)

\* the bytes that can start a UTF-8 character, by the number of
\* continuation bytes that follow
Utf8Start(continuations) ==
    CASE continuations = 0 -> 0..127
      [] continuations = 1 -> 194..223
      [] continuations = 2 -> 224..239
      [] continuations = 3 -> 240..244

ContinuationByte == byte_range(128, 191)

\* the maximal runs of a set of bytes, in increasing order, as byte ranges
RECURSIVE Ranges(_)
Ranges(S) ==
    IF S = {} THEN <<>>
    ELSE LET low == Min(S)
             high == Max({x \in S : \A y \in low..x : y \in S})
         IN  <<byte_range(low, high)>> \o Ranges(S \ (low..high))

\* one character that starts with none of the forbidden bytes
any_char_but(forbidden) ==
    LET lead(n) == Ranges(Utf8Start(n) \ forbidden)
        tail(n) == [i \in 1..n |-> ContinuationByte]
        chars(n) == [i \in 1..Len(lead(n)) |-> Join(<<lead(n)[i]>> \o tail(n))]
    IN  select_grammar(lead(0) \o chars(1) \o chars(2) \o chars(3))

\* ---- the trees of re's parser ----

SubPattern(data) == Node("SubPattern", "", 0, 0, data)

Lit(c) == Node("LITERAL", "", ord[c], 0, <<>>)

NotLit(c) == Node("NOT_LITERAL", "", ord[c], 0, <<>>)

Rng(low, high) == Node("RANGE", "", ord[low], ord[high], <<>>)

AnyChar == Node("ANY", "", 0, 0, <<>>)

Category(name) == Node("CATEGORY", name, 0, 0, <<>>)

Class(items) == Node("IN", "", 0, 0, items)

NegatedClass(items) == Node("IN", "", 0, 0, <<Node("NEGATE", "", 0, 0, <<>>)>> \o items)

Branch(alternatives) == Node("BRANCH", "", 0, 0, alternatives)

Group(data) == Node("SUBPATTERN", "", 1, 0, <<SubPattern(data)>>)

Repeat(low, high, data) == Node("MAX_REPEAT", "", low, high, <<SubPattern(data)>>)

\* a word of literals
Word(chars) == [i \in 1..Len(chars) |-> Lit(chars[i])]

\* ---- Transformer ----

\* the named constant of re's parser for an open upper bound, larger than
\* any count
MAXREPEAT == 2 ^ 30 + (2 ^ 30 - 1)

LITERAL(args) == IF args > 255 THEN Raise("OverflowError") ELSE Byte(args)

NOT_LITERAL(args) ==
    IF args > 255 THEN Raise("OverflowError")
    ELSE IF args > 127 THEN Raise("UnicodeDecodeError")
    ELSE any_char_but({args})

RANGE(low, high) ==
    IF low > 255 \/ high > 255 THEN Raise("OverflowError") ELSE byte_range(low, high)

ANY == any_char_but({ord["newline"]})

\* some value of the list is neither a Byte, a ByteRange nor a Select of such
RECURSIVE NegationNotImplemented(_)
NegationNotImplemented(grammars) ==
    \E i \in 1..Len(grammars) :
        CASE grammars[i].op \in {"Byte", "ByteRange"} -> FALSE
          [] grammars[i].op = "Select" -> NegationNotImplemented(grammars[i].kids)
          [] OTHER -> TRUE

\* the bytes of the values of Byte and ByteRange, at the top level only
TopLevelNegatedBytes(grammars) ==
    UNION {IF grammars[i].op \in {"Byte", "ByteRange"} THEN grammars[i].a..grammars[i].b ELSE {}
           : i \in 1..Len(grammars)}

RECURSIVE _get_negated_bytes(_)
_get_negated_bytes(grammars) ==
    UNION {CASE grammars[i].op = "Byte" -> {grammars[i].a}
             [] grammars[i].op = "ByteRange" -> grammars[i].a..grammars[i].b
             [] grammars[i].op = "Select" -> _get_negated_bytes(grammars[i].kids)
             [] OTHER -> {}
           : i \in 1..Len(grammars)}

\* the first exception among the values, if any
RECURSIVE Raised1(_)
Raised1(values) ==
    IF values = <<>> THEN <<>>
    ELSE IF Head(values).op = "Raise" THEN <<Head(values)>>
    ELSE Raised1(Tail(values))

\* IN on the transformed members of the class
IN_(negate, transformed_args) ==
    IF Raised1(transformed_args) # <<>> THEN Raised1(transformed_args)[1]
    ELSE IF negate
    THEN IF NegationNotImplemented(transformed_args) THEN Raise("NotImplementedError")
         ELSE any_char_but(_get_negated_bytes(transformed_args))
    ELSE select_grammar(transformed_args)

\* the first alternative alone
BranchFirst(transformed_args) == transformed_args[1]

\* BRANCH on the transformed alternatives
BRANCH(transformed_args) ==
    IF Raised1(transformed_args) # <<>> THEN Raised1(transformed_args)[1]
    ELSE select_grammar(transformed_args)

\* as many optional copies as the upper bound
OptionalCopiesHigh(low, high) == high

\* the number of optional copies that follow the mandatory ones
OptionalCopies(low, high) == high - low

\* MAX_REPEAT on the transformed operand
MAX_REPEAT(low, high, transformed_arg) ==
    IF transformed_arg.op = "Raise" THEN transformed_arg
    ELSE IF high = MAXREPEAT
    THEN IF low = 0 THEN zero_or_more(transformed_arg)
         ELSE Join([i \in 1..low |-> transformed_arg] \o <<zero_or_more(transformed_arg)>>)
    ELSE Join([i \in 1..low |-> transformed_arg]
              \o [i \in 1..OptionalCopies(low, high) |-> optional_grammar(transformed_arg)])

RECURSIVE transform(_)

\* the members of the classes that CATEGORY writes as patterns
DigitClass == <<Rng("0", "9")>>

WordClass == <<Rng("0", "9"), Rng("A", "Z"), Rng("a", "z"), Lit("_")>>

SpaceClass == <<Lit("space"), Lit("tab"), Lit("newline"), Lit("cr"), Lit("ff"), Lit("vt")>>

CATEGORY(args) ==
    CASE args = "CATEGORY_DIGIT" -> transform(SubPattern(<<Class(DigitClass)>>))
      [] args = "CATEGORY_NOT_DIGIT" -> transform(SubPattern(<<NegatedClass(DigitClass)>>))
      [] args = "CATEGORY_WORD" -> transform(SubPattern(<<Class(WordClass)>>))
      [] args = "CATEGORY_NOT_WORD" -> transform(SubPattern(<<NegatedClass(WordClass)>>))
      [] args = "CATEGORY_SPACE" -> transform(SubPattern(<<Class(SpaceClass)>>))
      [] args = "CATEGORY_NOT_SPACE" -> transform(SubPattern(<<NegatedClass(SpaceClass)>>))
      [] OTHER -> Raise("NotImplementedError")

transform(tree) ==
    LET transformed == [i \in 1..Len(tree.kids) |-> transform(tree.kids[i])]
    IN  CASE tree.op = "SubPattern" ->
                IF Len(tree.kids) = 1 THEN transformed[1]
                ELSE IF Raised1(transformed) # <<>> THEN Raised1(transformed)[1]
                ELSE Join(transformed)
          [] tree.op = "SUBPATTERN" -> transformed[1]
          [] tree.op = "LITERAL" -> LITERAL(tree.a)
          [] tree.op = "NOT_LITERAL" -> NOT_LITERAL(tree.a)
          [] tree.op = "RANGE" -> RANGE(tree.a, tree.b)
          [] tree.op = "ANY" -> ANY
          [] tree.op = "IN" ->
                IF tree.kids[1].op = "NEGATE" THEN IN_(TRUE, Tail(transformed))
                ELSE IN_(FALSE, transformed)
          [] tree.op = "BRANCH" -> BRANCH(transformed)
          [] tree.op = "MAX_REPEAT" -> MAX_REPEAT(tree.a, tree.b, transformed[1])
          [] tree.op = "CATEGORY" -> CATEGORY(tree.arg)
          [] OTHER -> Raise("NotImplementedError")

\* regex(pattern), on the parsed pattern
regex(tree) == transform(tree)

-----------------------------------------------------------------------------
(* The byte parser over a grammar *)

Epsilon == Join(<<>>)

\* the grammar accepts the empty string
RECURSIVE Nullable(_)
Nullable(g) ==
    CASE g.op = "Join" -> \A i \in 1..Len(g.kids) : Nullable(g.kids[i])
      [] g.op = "Select" -> \E i \in 1..Len(g.kids) : Nullable(g.kids[i])
      [] g.op = "ZeroOrMore" -> TRUE
      [] g.op = "Null" -> TRUE
      [] OTHER -> FALSE

\* the grammar accepts nothing
RECURSIVE IsEmpty(_)
IsEmpty(g) ==
    CASE g.op = "Byte" -> FALSE
      [] g.op = "ByteRange" -> g.a > g.b
      [] g.op = "Join" -> \E i \in 1..Len(g.kids) : IsEmpty(g.kids[i])
      [] g.op = "Select" -> \A i \in 1..Len(g.kids) : IsEmpty(g.kids[i])
      [] g.op = "ZeroOrMore" -> FALSE
      [] g.op = "Null" -> FALSE
      [] OTHER -> TRUE

\* the alternatives that are left, without the dead ones
Alive(values) == SelectSeq(values, LAMBDA v : ~IsEmpty(v))

\* what is left of the grammar after the byte: the parser's new frontier
RECURSIVE Consume(_, _)
Consume(g, byte) ==
    CASE g.op \in {"Byte", "ByteRange"} ->
            IF g.a <= byte /\ byte <= g.b THEN Epsilon ELSE Select(<<>>)
      [] g.op = "Select" ->
            select_grammar(Alive([i \in 1..Len(g.kids) |-> Consume(g.kids[i], byte)]))
      [] g.op = "Join" ->
            IF g.kids = <<>> THEN Select(<<>>)
            ELSE LET first == Consume(Head(g.kids), byte)
                     inFirst == IF first = Epsilon THEN Join(Tail(g.kids))
                                ELSE Join(<<first>> \o Tail(g.kids))
                     afterFirst == IF Nullable(Head(g.kids))
                                   THEN Consume(Join(Tail(g.kids)), byte)
                                   ELSE Select(<<>>)
                 IN  select_grammar(Alive(<<inFirst, afterFirst>>))
      [] g.op = "ZeroOrMore" ->
            LET first == Consume(g.kids[1], byte)
            IN  IF first = Epsilon THEN g ELSE Join(<<first, g>>)
      [] OTHER -> Select(<<>>)

Bytes == 0..255

\* the bytes the parser allows next
valid_next_bytes(g) == {byte \in Bytes : ~IsEmpty(Consume(g, byte))}

\* the parser's frontier after the bytes, and whether each was allowed
RECURSIVE ConsumeAll(_, _)
ConsumeAll(g, bytes) ==
    IF bytes = <<>> THEN g ELSE ConsumeAll(Consume(g, Head(bytes)), Tail(bytes))

\* the parser consumes the bytes and ends in an accepting state
matched(g, bytes) == Nullable(ConsumeAll(g, bytes))

-----------------------------------------------------------------------------
(* regex(pattern) followed by a parse, byte by byte *)

\* the largest count in a quantifier
MaxCopies == 2

\* the bytes fed to the parser at most
MaxConsumed == 5

\* the characters of the strings matched at most
MaxChars == 3

\* what a quantifier repeats
Operands ==
    {<<Lit("a")>>, <<Group(Word(<<"a", "b">>))>>, <<Class(<<Lit("a"), Lit("b")>>)>>}

\* {m,n}, and with MAXREPEAT ?, *, + and {m,}
Quantifiers ==
    {<<low, high>> \in (0..MaxCopies) \X ((1..MaxCopies) \cup {MAXREPEAT}) : low <= high}

\* one quantified operand, alone and before a literal
QuantifierPatterns ==
    {SubPattern(<<Repeat(q[1], q[2], x)>>) : q \in Quantifiers, x \in Operands}
        \cup {SubPattern(<<Repeat(q[1], q[2], x), Lit("b")>>) : q \in Quantifiers, x \in Operands}

\* literals and classes, one character each
CharacterPatterns ==
    {SubPattern(<<x>>) :
        x \in {Lit("a"), Lit("e_acute"), Lit("euro"), AnyChar,
               NotLit("a"), NotLit("e_acute"),
               Class(<<Lit("a"), Lit("b")>>), Class(<<Rng("a", "c")>>),
               Class(<<Rng("a", "c"), Category("CATEGORY_DIGIT")>>),
               Class(<<Lit("e_acute"), Lit("a")>>),
               NegatedClass(<<Lit("a"), Lit("b")>>), NegatedClass(<<Rng("b", "z")>>),
               NegatedClass(<<Rng("a", "z"), Category("CATEGORY_DIGIT")>>),
               NegatedClass(<<Category("CATEGORY_WORD"), Lit("newline")>>),
               NegatedClass(<<Category("CATEGORY_SPACE")>>),
               NegatedClass(<<Category("CATEGORY_DIGIT")>>),
               Category("CATEGORY_DIGIT"), Category("CATEGORY_NOT_DIGIT"),
               Category("CATEGORY_WORD"), Category("CATEGORY_SPACE")}}

\* alternations, groups and nested quantifiers
CompoundPatterns ==
    {SubPattern(<<Branch(<<SubPattern(Word(<<"c", "a", "t">>)), SubPattern(Word(<<"d", "o", "g">>))>>)>>),
     SubPattern(<<Repeat(0, 1, <<Group(Word(<<"x", "y", "z">>))>>)>> \o Word(<<"a", "b", "c">>)),
     SubPattern(<<Branch(<<SubPattern(<<Group(<<Class(<<Lit("a"), Lit("b")>>)>>), Lit("c")>>),
                           SubPattern(<<Lit("d")>>)>>)>>),
     SubPattern(<<Group(<<Branch(<<SubPattern(Word(<<"d", "o", "g">>)),
                                   SubPattern(Word(<<"c", "a", "t">>))>>)>>),
                  Repeat(0, 1, <<Lit("s")>>)>>),
     SubPattern(<<Branch(<<SubPattern(<<Lit("a")>>), SubPattern(<<>>)>>), Lit("b")>>),
     SubPattern(<<Repeat(2, 2, <<Group(<<Repeat(1, 2, <<Lit("a")>>), Lit("b")>>)>>)>>),
     SubPattern(<<Repeat(1, 2, <<Group(Word(<<"a", "b">>))>>), Repeat(1, 2, <<Lit("c")>>)>>),
     SubPattern(<<Repeat(1, 2, <<NegatedClass(<<Lit("a"), Lit("b")>>)>>)>>),
     SubPattern(<<Repeat(1, MAXREPEAT, <<Category("CATEGORY_DIGIT")>>)>>),
     SubPattern(<<AnyChar, Lit("b")>>),
     SubPattern(<<>>),
     SubPattern(<<Branch(<<SubPattern(<<Lit("a")>>), SubPattern(<<>>)>>)>>),
     SubPattern(<<Repeat(0, 0, <<Lit("a")>>)>>),
     SubPattern(<<Lit("b"), Repeat(0, 0, <<Group(Word(<<"a", "b">>))>>)>>)}

Patterns == QuantifierPatterns \cup CharacterPatterns \cup CompoundPatterns

\* the bytes offered to the parser
ProbeBytes ==
    {ord[c] : c \in {"a", "b", "c", "d", "g", "o", "s", "t", "x", "y", "z", "5", "newline"}}
        \cup {128, 163, 169, 195, 217, 233, 245}

RegexInit ==
    /\ rx_tree \in Patterns
    /\ rx_grammar = <<>>
    /\ rx_frontier = <<>>
    /\ rx_consumed = <<>>
    /\ rx_failed = FALSE

RegexParked ==
    /\ rx_tree = <<>>
    /\ rx_grammar = <<>>
    /\ rx_frontier = <<>>
    /\ rx_consumed = <<>>
    /\ rx_failed = FALSE

\* regex(pattern): the grammar, or the exception
Transform ==
    /\ rx_grammar = <<>>
    /\ rx_grammar' = <<regex(rx_tree)>>
    /\ rx_frontier' = rx_grammar'
    /\ UNCHANGED <<rx_tree, rx_consumed, rx_failed>>
    /\ UNCHANGED nonRegexVars

\* the parser can take bytes
Parsing ==
    /\ rx_grammar # <<>>
    /\ rx_grammar[1].op # "Raise"
    /\ ~rx_failed

\* a byte the parser allows is consumed
ConsumeByte ==
    /\ Parsing
    /\ Len(rx_consumed) < MaxConsumed
    /\ \E byte \in ProbeBytes \cap valid_next_bytes(rx_frontier[1]) :
        /\ rx_frontier' = <<Consume(rx_frontier[1], byte)>>
        /\ rx_consumed' = Append(rx_consumed, byte)
    /\ UNCHANGED <<rx_tree, rx_grammar, rx_failed>>
    /\ UNCHANGED nonRegexVars

\* any other byte is a match failure
MatchFailure ==
    /\ Parsing
    /\ \E byte \in ProbeBytes \ valid_next_bytes(rx_frontier[1]) :
        rx_failed' = TRUE
    /\ UNCHANGED <<rx_tree, rx_grammar, rx_frontier, rx_consumed>>
    /\ UNCHANGED nonRegexVars

-----------------------------------------------------------------------------
(* GuidanceFunction.__call__ and _decorator.wrapped (_guidance.py) *)

Threads == {1, 2}

\* calls started per thread at most
MaxSelfCalls == 2

\* calls in progress per thread at most
MaxNesting == 2

\* each thread can find _wrapper unset at most once
WrapperIds == 1..Cardinality(Threads)

\* a call in progress: where it is, whether it has no arguments, the
\* wrapper it runs and the reference it installed (0: none)
SelfCallFrame(pc, no_args, wrapper, ref) ==
    [pc |-> pc, no_args |-> no_args, wrapper |-> wrapper, ref |-> ref]

TopFrame(t) == sc_stack[t][Len(sc_stack[t])]

SetTop(t, frame) == [sc_stack EXCEPT ![t] = [@ EXCEPT ![Len(@)] = frame]]

PopFrame(t) == [sc_stack EXCEPT ![t] = SubSeq(@, 1, Len(@) - 1)]

\* one slot for all threads
SharedByThreads(t) == 1

\* the slot of a wrapper that the thread sees: its own
ThreadLocal(t) == t

\* getattr(thread_local, "_self_call_reference_", None)
Reference(wrapper, t) == sc_slot[wrapper][ThreadLocal(t)]

\* the reference installed by the outermost call without arguments that is
\* running its body below the top call of the thread (0: none)
EnclosingReference(t) ==
    LET below == {i \in 1..(Len(sc_stack[t]) - 1) :
                    sc_stack[t][i].no_args /\ sc_stack[t][i].pc = "body"}
    IN  IF below = {} THEN 0 ELSE sc_stack[t][Min(below)].ref

\* no call has finished
NothingReturned ==
    [thread |-> 0, no_args |-> FALSE, kind |-> "none", id |-> 0, ran_body |-> FALSE,
     enclosing |-> 0, depth |-> 0, ref |-> 0, value |-> <<>>, assigned |-> 0]

\* what a finished call returned
Returned(t, kind, id, ran_body) ==
    [thread |-> t, no_args |-> TopFrame(t).no_args, kind |-> kind, id |-> id,
     ran_body |-> ran_body, enclosing |-> EnclosingReference(t), depth |-> Len(sc_stack[t]),
     ref |-> TopFrame(t).ref,
     value |-> IF TopFrame(t).ref = 0 THEN <<>> ELSE sc_refs'[TopFrame(t).ref].value,
     assigned |-> IF TopFrame(t).ref = 0 THEN 0 ELSE sc_refs'[TopFrame(t).ref].assigned]

SelfCallInit ==
    /\ sc_wrapper = 0
    /\ sc_nwrappers = 0
    /\ sc_slot = [w \in WrapperIds |-> [t \in Threads |-> <<>>]]
    /\ sc_refs = <<>>
    /\ sc_stack = [t \in Threads |-> <<>>]
    /\ sc_raising = [t \in Threads |-> FALSE]
    /\ sc_nodes = 0
    /\ sc_calls = [t \in Threads |-> 0]
    /\ sc_last = [t \in Threads |-> NothingReturned]

SelfCallParked ==
    /\ sc_wrapper = 0
    /\ sc_nwrappers = 0
    /\ sc_slot = <<>>
    /\ sc_refs = <<>>
    /\ sc_stack = <<>>
    /\ sc_raising = <<>>
    /\ sc_nodes = 0
    /\ sc_calls = <<>>
    /\ sc_last = <<>>

\* the top call of the thread is running its body, or the thread is idle
CanCall(t) ==
    /\ ~sc_raising[t]
    /\ sc_calls[t] < MaxSelfCalls
    /\ Len(sc_stack[t]) < MaxNesting
    /\ sc_stack[t] # <<>> => TopFrame(t).pc = "body"

\* the function is called, from outside or from its own body
SelfCall(t) ==
    /\ CanCall(t)
    /\ \E no_args \in BOOLEAN :
        sc_stack' = [sc_stack EXCEPT ![t] = Append(@, SelfCallFrame("call", no_args, 0, 0))]
    /\ sc_calls' = [sc_calls EXCEPT ![t] = @ + 1]
    /\ UNCHANGED <<sc_wrapper, sc_nwrappers, sc_slot, sc_refs, sc_raising, sc_nodes, sc_last>>
    /\ UNCHANGED nonSelfCallVars

\* __call__: `if self._wrapper is None`
CheckWrapper(t) ==
    /\ sc_stack[t] # <<>>
    /\ TopFrame(t).pc = "call"
    /\ sc_stack' = SetTop(t, [TopFrame(t) EXCEPT !.pc = IF sc_wrapper = 0 THEN "create" ELSE "load"])
    /\ UNCHANGED <<sc_wrapper, sc_nwrappers, sc_slot, sc_refs, sc_raising, sc_nodes, sc_calls, sc_last>>
    /\ UNCHANGED nonSelfCallVars

\* __call__: `self._wrapper = _decorator(...)`, with a thread_local of its own
CreateWrapper(t) ==
    /\ sc_stack[t] # <<>>
    /\ TopFrame(t).pc = "create"
    /\ sc_nwrappers' = sc_nwrappers + 1
    /\ sc_wrapper' = sc_nwrappers'
    /\ sc_stack' = SetTop(t, [TopFrame(t) EXCEPT !.pc = "load"])
    /\ UNCHANGED <<sc_slot, sc_refs, sc_raising, sc_nodes, sc_calls, sc_last>>
    /\ UNCHANGED nonSelfCallVars

\* __call__: `self._wrapper(...)` reads the attribute and calls it
LoadWrapper(t) ==
    /\ sc_stack[t] # <<>>
    /\ TopFrame(t).pc = "load"
    /\ sc_stack' = SetTop(t, [TopFrame(t) EXCEPT !.pc = "wrapped", !.wrapper = sc_wrapper])
    /\ UNCHANGED <<sc_wrapper, sc_nwrappers, sc_slot, sc_refs, sc_raising, sc_nodes, sc_calls, sc_last>>
    /\ UNCHANGED nonSelfCallVars

\* wrapped: a reference is set, and is returned
ReturnReference(t) ==
    /\ sc_stack[t] # <<>>
    /\ TopFrame(t).pc = "wrapped"
    /\ Reference(TopFrame(t).wrapper, t) # <<>>
    /\ sc_last' = [sc_last EXCEPT ![t] = Returned(t, "reference", Reference(TopFrame(t).wrapper, t)[1], FALSE)]
    /\ sc_stack' = PopFrame(t)
    /\ UNCHANGED <<sc_wrapper, sc_nwrappers, sc_slot, sc_refs, sc_raising, sc_nodes, sc_calls>>
    /\ UNCHANGED nonSelfCallVars

\* wrapped: no reference is set; one is installed if there are no
\* arguments, and the body is called
EnterBody(t) ==
    /\ sc_stack[t] # <<>>
    /\ TopFrame(t).pc = "wrapped"
    /\ Reference(TopFrame(t).wrapper, t) = <<>>
    /\ IF TopFrame(t).no_args
       THEN /\ sc_refs' = Append(sc_refs, [installer |-> t, value |-> <<>>, assigned |-> 0])
            /\ sc_slot' = [sc_slot EXCEPT ![TopFrame(t).wrapper][ThreadLocal(t)] = <<Len(sc_refs')>>]
            /\ sc_stack' = SetTop(t, [TopFrame(t) EXCEPT !.pc = "body", !.ref = Len(sc_refs')])
       ELSE /\ sc_stack' = SetTop(t, [TopFrame(t) EXCEPT !.pc = "body"])
            /\ UNCHANGED <<sc_refs, sc_slot>>
    /\ UNCHANGED <<sc_wrapper, sc_nwrappers, sc_raising, sc_nodes, sc_calls, sc_last>>
    /\ UNCHANGED nonSelfCallVars

\* the slot left as it is
NotDeleted(t) == sc_slot

\* the slot after `del thread_local._self_call_reference_`
Deleted(t) ==
    IF TopFrame(t).no_args
    THEN [sc_slot EXCEPT ![TopFrame(t).wrapper][ThreadLocal(t)] = <<>>]
    ELSE sc_slot

\* the body returns a node: the reference in the slot gets it as its value,
\* the slot is deleted and the node is returned
ReturnNode(t) ==
    /\ sc_stack[t] # <<>>
    /\ TopFrame(t).pc = "body"
    /\ ~sc_raising[t]
    /\ sc_nodes' = sc_nodes + 1
    /\ sc_refs' = IF TopFrame(t).no_args
                  THEN LET r == Reference(TopFrame(t).wrapper, t)[1]
                       IN  [sc_refs EXCEPT ![r] = [@ EXCEPT !.value = <<sc_nodes'>>,
                                                           !.assigned = @ + 1]]
                  ELSE sc_refs
    /\ sc_slot' = Deleted(t)
    /\ sc_last' = [sc_last EXCEPT ![t] = Returned(t, "node", sc_nodes', TRUE)]
    /\ sc_stack' = PopFrame(t)
    /\ UNCHANGED <<sc_wrapper, sc_nwrappers, sc_raising, sc_calls>>
    /\ UNCHANGED nonSelfCallVars

\* the body raises, or lets the exception of a nested call through: the
\* slot is deleted and the exception goes to the caller
RaiseFromBody(t) ==
    /\ sc_stack[t] # <<>>
    /\ TopFrame(t).pc = "body"
    /\ sc_slot' = Deleted(t)
    /\ sc_stack' = PopFrame(t)
    /\ sc_raising' = [sc_raising EXCEPT ![t] = Len(sc_stack[t]) > 1]
    /\ UNCHANGED <<sc_wrapper, sc_nwrappers, sc_refs, sc_nodes, sc_calls, sc_last>>
    /\ UNCHANGED nonSelfCallVars

\* the body catches the exception of a nested call
CatchInBody(t) ==
    /\ sc_raising[t]
    /\ sc_raising' = [sc_raising EXCEPT ![t] = FALSE]
    /\ UNCHANGED <<sc_wrapper, sc_nwrappers, sc_slot, sc_refs, sc_stack, sc_nodes, sc_calls, sc_last>>
    /\ UNCHANGED nonSelfCallVars

-----------------------------------------------------------------------------
(* Model.copy, __add__, _run_stateless, set, remove (models/_model.py) *)

\* Model objects held at most
MaxModels == 3

\* pieces of text in a model's state at most
MaxText == 3

\* items of a list variable at most
MaxListItems == 3

VariableNames == {"k", "b"}

\* the context block: its name, opener and closer
BlockName == "b"

BlockOpener == "<"

BlockCloser == ">"

\* a variable's value: absent, a string, or a reference to a list object
NoVariable == [kind |-> "none", text |-> <<>>, id |-> 0]

StrValue(text) == [kind |-> "str", text |-> text, id |-> 0]

ListRef(id) == [kind |-> "list", text |-> <<>>, id |-> id]

\* Model.__init__
NewModel ==
    [state |-> <<>>, token_count |-> 0, opened_blocks |-> <<>>,
     variables |-> [k \in VariableNames |-> NoVariable],
     variables_log_probs |-> [k \in VariableNames |-> NoVariable]]

\* Model.copy: the dicts are copied, the values in them are not
copy(m) == m

\* _inplace_append
InplaceAppend(m, text) == [m EXCEPT !.state = @ \o text]

\* __add__: the blocks that are no longer active are closed, the blocks
\* that became active are opened
ExitBlocks(m, active) ==
    IF m.opened_blocks # <<>> /\ ~active
    THEN LET pos == m.opened_blocks[1].pos
         IN  InplaceAppend([m EXCEPT !.opened_blocks = <<>>,
                                     !.variables[BlockName] =
                                        StrValue(SubSeq(m.state, pos + 1, Len(m.state)))],
                           <<BlockCloser>>)
    ELSE m

EnterBlocks(m, active) ==
    IF m.opened_blocks = <<>> /\ active
    THEN LET opened == InplaceAppend(m, <<BlockOpener>>)
         IN  [opened EXCEPT !.opened_blocks = <<[pos |-> Len(opened.state), closer |-> BlockCloser]>>,
                            !.variables[BlockName] = NoVariable,
                            !.variables_log_probs[BlockName] = NoVariable]
    ELSE m

\* __add__ up to the dispatch on the value
AddStart(m, active) == EnterBlocks(ExitBlocks(copy(m), active), active)

\* the chunks of an engine run: the text, the tokens, and one capture group
\* (none, a value, or a list of values to append)
Captures ==
    {[mode |-> "none", name |-> "k", items |-> <<>>]}
        \cup [mode : {"assign"}, name : {"k"}, items : {<<"v">>}]
        \cup [mode : {"append"}, name : {"k"}, items : {<<"v">>, <<"v", "w">>}]

Chunks == [text : {<<>>, <<"t">>}, new_token_count : {0, 1}, capture : Captures]

\* the id of the list the capture appends to: the variable's list, or a
\* new one if the variable is not a list
TargetList(value, lists) == IF value.kind = "list" THEN value.id ELSE Len(lists) + 1

\* the list objects after the append
Appended(value, lists, items) ==
    IF value.kind = "list"
    THEN [lists EXCEPT ![value.id] = @ \o items]
    ELSE Append(lists, items)

\* _run_stateless on the copy, for one chunk: the model returned
RunStateless(m, chunk, lists) ==
    LET counted == [m EXCEPT !.token_count = @ + chunk.new_token_count]
        extended == InplaceAppend(counted, chunk.text)
        name == chunk.capture.name
    IN  CASE chunk.capture.mode = "none" -> extended
          [] chunk.capture.mode = "assign" ->
                [extended EXCEPT !.variables[name] = StrValue(chunk.capture.items),
                                 !.variables_log_probs[name] = StrValue(<<"lp">>)]
          [] chunk.capture.mode = "append" ->
                [extended EXCEPT
                    !.variables[name] = ListRef(TargetList(m.variables[name], lists)),
                    !.variables_log_probs[name] =
                        ListRef(TargetList(m.variables_log_probs[name],
                                           Appended(m.variables[name], lists, chunk.capture.items)))]

\* the list objects after _run_stateless
RunStatelessLists(m, chunk, lists) ==
    IF chunk.capture.mode = "append"
    THEN LET values == Appended(m.variables[chunk.capture.name], lists, chunk.capture.items)
         IN  Appended(m.variables_log_probs[chunk.capture.name], values,
                      [i \in 1..Len(chunk.capture.items) |-> "lp"])
    ELSE lists

\* Model.set
set(m, key, value) ==
    [copy(m) EXCEPT !.variables[key] = StrValue(value),
                    !.variables_log_probs[key] = StrValue(<<"0.0">>)]

\* Model.remove: a copy without the variable, or the model itself
remove(m, key) ==
    IF m.variables[key].kind # "none"
    THEN [copy(m) EXCEPT !.variables[key] = NoVariable,
                         !.variables_log_probs[key] = NoVariable]
    ELSE m

\* what a program can read of a model: the text, the token count, the
\* opened blocks, and the variables and their log-probs with the contents
\* of the lists
Contents(value, lists) ==
    IF value.kind = "list" THEN [kind |-> "list", text |-> lists[value.id]]
    ELSE [kind |-> value.kind, text |-> value.text]

Observed(m, lists) ==
    [state |-> m.state, token_count |-> m.token_count, opened_blocks |-> m.opened_blocks,
     variables |-> [k \in VariableNames |-> Contents(m.variables[k], lists)],
     variables_log_probs |-> [k \in VariableNames |-> Contents(m.variables_log_probs[k], lists)]]

NoOperation == [op |-> "none", m |-> 0, before |-> Observed(NewModel, <<>>), result |-> 0]

ModelInit ==
    /\ md_models = <<NewModel>>
    /\ md_lists = <<>>
    /\ md_active = FALSE
    /\ md_last = NoOperation

ModelParked ==
    /\ md_models = <<>>
    /\ md_lists = <<>>
    /\ md_active = FALSE
    /\ md_last = <<>>

\* the program keeps the result
KeepResult(op, i, result) ==
    /\ md_models' = Append(md_models, result)
    /\ md_last' = [op |-> op, m |-> i, before |-> Observed(md_models[i], md_lists),
                   result |-> Len(md_models')]

\* the lists stay within the bound
ListsBounded(lists) == \A id \in 1..Len(lists) : Len(lists[id]) <= MaxListItems

\* `with block(...)`: the context block becomes active, or stops being so
ToggleBlock ==
    /\ md_active' = ~md_active
    /\ md_last' = NoOperation
    /\ UNCHANGED <<md_models, md_lists>>
    /\ UNCHANGED nonModelVars

\* m + "text"
AddText ==
    /\ Len(md_models) < MaxModels
    /\ \E i \in 1..Len(md_models) :
        LET result == InplaceAppend(AddStart(md_models[i], md_active), <<"s">>)
        IN  /\ Len(result.state) <= MaxText
            /\ KeepResult("add", i, result)
    /\ UNCHANGED <<md_lists, md_active>>
    /\ UNCHANGED nonModelVars

\* m + grammar: the engine runs and yields a chunk
AddGrammar ==
    /\ Len(md_models) < MaxModels
    /\ \E i \in 1..Len(md_models), chunk \in Chunks :
        LET lm == AddStart(md_models[i], md_active)
            result == RunStateless(lm, chunk, md_lists)
            lists == RunStatelessLists(lm, chunk, md_lists)
        IN  /\ Len(result.state) <= MaxText
            /\ ListsBounded(lists)
            /\ md_lists' = lists
            /\ KeepResult("add", i, result)
    /\ UNCHANGED md_active
    /\ UNCHANGED nonModelVars

\* m.set(k, x)
Set ==
    /\ Len(md_models) < MaxModels
    /\ \E i \in 1..Len(md_models), key \in VariableNames :
        KeepResult("set", i, set(md_models[i], key, <<"x">>))
    /\ UNCHANGED <<md_lists, md_active>>
    /\ UNCHANGED nonModelVars

\* m.remove(k): the program keeps the copy, or gets m itself
Remove ==
    /\ Len(md_models) < MaxModels
    /\ \E i \in 1..Len(md_models), key \in VariableNames :
        IF md_models[i].variables[key].kind # "none"
        THEN KeepResult("remove", i, remove(md_models[i], key))
        ELSE /\ remove(md_models[i], key) = md_models[i]
             /\ md_models' = md_models
             /\ md_last' = [op |-> "remove", m |-> i,
                            before |-> Observed(md_models[i], md_lists), result |-> i]
    /\ UNCHANGED <<md_lists, md_active>>
    /\ UNCHANGED nonModelVars

-----------------------------------------------------------------------------
(* ModelStream.__iter__ (models/_model.py), CaptureEvents (_utils.py) *)

\* model events sent by one run at most
MaxEvents == 3

\* what the worker puts last: None when the run is done, the exception when it raised
DoneMark == 0

ExceptionMark == 0 - 1

StreamInit ==
    /\ st_events \in 0..MaxEvents
    /\ st_raises \in BOOLEAN
    /\ st_queue = <<>>
    /\ st_put = 0
    /\ st_worker = "none"
    /\ st_consumer = "new"
    /\ st_yielded = <<>>

StreamParked ==
    /\ st_events = 0
    /\ st_raises = FALSE
    /\ st_queue = <<>>
    /\ st_put = 0
    /\ st_worker = "parked"
    /\ st_consumer = "parked"
    /\ st_yielded = <<>>

\* __iter__: the queue is created and the thread started
StreamIter ==
    /\ st_consumer = "new"
    /\ st_consumer' = "get"
    /\ st_worker' = "running"
    /\ UNCHANGED <<st_events, st_raises, st_queue, st_put, st_yielded>>
    /\ UNCHANGED nonStreamVars

\* target: _inner_run appends to the model, _inplace_append sends the model
\* to the event queue
SendToEventQueue ==
    /\ st_worker = "running"
    /\ st_put < st_events
    /\ st_put' = st_put + 1
    /\ st_queue' = Append(st_queue, st_put + 1)
    /\ UNCHANGED <<st_events, st_raises, st_worker, st_consumer, st_yielded>>
    /\ UNCHANGED nonStreamVars

\* target: _inner_run returned, events.put(None)
WorkerDone ==
    /\ st_worker = "running"
    /\ st_put = st_events
    /\ ~st_raises
    /\ st_queue' = Append(st_queue, DoneMark)
    /\ st_worker' = "finishing"
    /\ UNCHANGED <<st_events, st_raises, st_put, st_consumer, st_yielded>>
    /\ UNCHANGED nonStreamVars

\* target: _inner_run raised, events.put(ex)
WorkerRaised ==
    /\ st_worker = "running"
    /\ st_put = st_events
    /\ st_raises
    /\ st_queue' = Append(st_queue, ExceptionMark)
    /\ st_worker' = "finishing"
    /\ UNCHANGED <<st_events, st_raises, st_put, st_consumer, st_yielded>>
    /\ UNCHANGED nonStreamVars

\* target returns: the thread is no longer alive
WorkerExit ==
    /\ st_worker = "finishing"
    /\ st_worker' = "dead"
    /\ UNCHANGED <<st_events, st_raises, st_queue, st_put, st_consumer, st_yielded>>
    /\ UNCHANGED nonStreamVars

\* events.get returns an event: None breaks the loop, an exception is
\* raised, a model event is yielded
QueueGet ==
    /\ st_consumer = "get"
    /\ st_queue # <<>>
    /\ st_queue' = Tail(st_queue)
    /\ IF Head(st_queue) = DoneMark
       THEN st_consumer' = "join" /\ UNCHANGED st_yielded
       ELSE IF Head(st_queue) = ExceptionMark
            THEN st_consumer' = "raised" /\ UNCHANGED st_yielded
            ELSE st_consumer' = "get" /\ st_yielded' = Append(st_yielded, Head(st_queue))
    /\ UNCHANGED <<st_events, st_raises, st_put, st_worker>>
    /\ UNCHANGED nonStreamVars

\* events.get(timeout=self.timeout) found the queue empty until the
\* timeout: queue.Empty
QueueEmpty ==
    /\ st_consumer = "get"
    /\ st_queue = <<>>
    /\ st_consumer' = "empty"
    /\ UNCHANGED <<st_events, st_raises, st_queue, st_put, st_worker, st_yielded>>
    /\ UNCHANGED nonStreamVars

\* except queue.Empty: if not thread.is_alive(): break
IsAlive ==
    /\ st_consumer = "empty"
    /\ st_consumer' = IF st_worker = "dead" THEN "join" ELSE "get"
    /\ UNCHANGED <<st_events, st_raises, st_queue, st_put, st_worker, st_yielded>>
    /\ UNCHANGED nonStreamVars

\* thread.join() returns, the iteration is over
ThreadJoin ==
    /\ st_consumer = "join"
    /\ st_worker = "dead"
    /\ st_consumer' = "done"
    /\ UNCHANGED <<st_events, st_raises, st_queue, st_put, st_worker, st_yielded>>
    /\ UNCHANGED nonStreamVars

-----------------------------------------------------------------------------
(* Model._run_stateless, chunk by chunk (models/_model.py) *)

\* operations and chunks at most
MaxOps == 3

\* the bytes: an ASCII byte, the first byte of a two-byte character, a
\* continuation byte
Ascii == "a"

LeadByte == "L"

ContByte == "C"

\* bytes.decode("utf8") succeeds
RECURSIVE Decodable(_)
Decodable(bytes) ==
    IF bytes = <<>> THEN TRUE
    ELSE IF Head(bytes) = Ascii THEN Decodable(Tail(bytes))
    ELSE IF Head(bytes) = LeadByte
         THEN Len(bytes) >= 2 /\ bytes[2] = ContByte /\ Decodable(Tail(Tail(bytes)))
    ELSE FALSE

\* bytes.decode("utf8"): one character for an ASCII byte, one for the two
\* bytes of a two-byte character
RECURSIVE Decode(_)
Decode(bytes) ==
    IF bytes = <<>> THEN <<>>
    ELSE IF Head(bytes) = Ascii THEN <<"a">> \o Decode(Tail(bytes))
    ELSE <<"e'">> \o Decode(Tail(Tail(bytes)))

\* the name the grammars capture into
CaptureNames == {"k"}

\* a variable or its log-probs: absent, one value, or a list of values
Absent == [kind |-> "none", items |-> <<>>]

Single(item) == [kind |-> "one", items |-> <<item>>]

ListOf(items) == [kind |-> "list", items |-> items]

\* the value and the log-prob that Model.set stores
UserValue == 0

\* the capture groups of a chunk: none, one value, or a list of values;
\* capture n is delivered with log-prob n
NoCapture == [mode |-> "none", name |-> "k", items |-> <<>>]

ChunkCaptures(n) ==
    {NoCapture}
        \cup [mode : {"assign"}, name : CaptureNames, items : {<<n + 1>>}]
        \cup [mode : {"append"}, name : CaptureNames, items : {<<n + 1, n + 2>>}]

\* the response chunks: new_bytes is generated_bytes followed by
\* force_forwarded_bytes
GeneratedBytes == {<<>>, <<Ascii>>, <<LeadByte>>, <<ContByte>>, <<LeadByte, ContByte>>}

ForceForwardedBytes == {<<>>, <<ContByte>>}

EngineChunks(n) ==
    [generated_bytes : GeneratedBytes, force_forwarded_bytes : ForceForwardedBytes,
     new_token_count : {0, 1}, capture : ChunkCaptures(n)]

new_bytes(chunk) == chunk.generated_bytes \o chunk.force_forwarded_bytes

NoChunk == <<>>

\* a count that adds the tokens of the chunks whose bytes decode only
CountDecoded(count, chunk, delayed) ==
    IF Decodable(delayed \o new_bytes(chunk)) THEN count + chunk.new_token_count ELSE count

\* lm.token_count += chunk.new_token_count
CountTokens(count, chunk, delayed) == count + chunk.new_token_count

\* the capture groups of a chunk stored in the variables
StoreVariables(variables, capture) ==
    IF capture.mode = "assign"
    THEN [variables EXCEPT ![capture.name] = Single(capture.items[1])]
    ELSE IF capture.mode = "append"
    THEN [variables EXCEPT ![capture.name] =
            IF @.kind = "list" THEN ListOf(@.items \o capture.items)
            ELSE ListOf(capture.items)]
    ELSE variables

\* the log-probs of the capture groups stored: the test for a list is made
\* on the log-probs entry itself
StoreLogProbs(log_probs, capture) == StoreVariables(log_probs, capture)

RunInit ==
    /\ rs_state = <<>>
    /\ rs_token_count = 0
    /\ rs_variables = [k \in CaptureNames |-> Absent]
    /\ rs_log_probs = [k \in CaptureNames |-> Absent]
    /\ rs_pc = "idle"
    /\ rs_delayed = <<>>
    /\ rs_bytes = <<>>
    /\ rs_text0 = <<>>
    /\ rs_count0 = 0
    /\ rs_sum = 0
    /\ rs_chunk = NoChunk
    /\ rs_ids = 0
    /\ rs_ops = 0

RunParked ==
    /\ rs_state = <<>>
    /\ rs_token_count = 0
    /\ rs_variables = <<>>
    /\ rs_log_probs = <<>>
    /\ rs_pc = "parked"
    /\ rs_delayed = <<>>
    /\ rs_bytes = <<>>
    /\ rs_text0 = <<>>
    /\ rs_count0 = 0
    /\ rs_sum = 0
    /\ rs_chunk = NoChunk
    /\ rs_ids = 0
    /\ rs_ops = 0

\* an operation on the model begins
Begin ==
    /\ rs_pc = "idle"
    /\ rs_ops < MaxOps
    /\ rs_ops' = rs_ops + 1
    /\ rs_text0' = rs_state
    /\ rs_count0' = rs_token_count
    /\ rs_sum' = 0
    /\ rs_bytes' = <<>>
    /\ rs_delayed' = <<>>
    /\ rs_chunk' = NoChunk

\* lm.set(k, value): value is a string or a list
SetVariable ==
    /\ Begin
    /\ \E key \in CaptureNames, value \in {Single(UserValue), ListOf(<<UserValue>>)} :
        /\ rs_variables' = [rs_variables EXCEPT ![key] = value]
        /\ rs_log_probs' = [rs_log_probs EXCEPT ![key] = Single(UserValue)]
    /\ UNCHANGED <<rs_state, rs_token_count, rs_pc, rs_ids>>
    /\ UNCHANGED nonRunVars

\* lm + "a": a plain string
AddString ==
    /\ Begin
    /\ rs_state' = rs_state \o <<"a">>
    /\ UNCHANGED <<rs_token_count, rs_variables, rs_log_probs, rs_pc, rs_ids>>
    /\ UNCHANGED nonRunVars

\* lm + grammar: _run_stateless starts the generation stream
StartRun ==
    /\ Begin
    /\ rs_pc' = "running"
    /\ UNCHANGED <<rs_state, rs_token_count, rs_variables, rs_log_probs, rs_ids>>
    /\ UNCHANGED nonRunVars

\* one turn of `for chunk in gen_obj`
Chunk ==
    /\ rs_pc = "running"
    /\ rs_ops < MaxOps
    /\ rs_ops' = rs_ops + 1
    /\ \E chunk \in EngineChunks(rs_ids) :
        LET bytes == rs_delayed \o new_bytes(chunk)
        IN  /\ rs_chunk' = <<chunk.capture>>
            /\ rs_ids' = rs_ids + Len(chunk.capture.items)
            /\ rs_token_count' = CountTokens(rs_token_count, chunk, rs_delayed)
            /\ rs_sum' = rs_sum + chunk.new_token_count
            /\ rs_bytes' = rs_bytes \o new_bytes(chunk)
            /\ IF ~Decodable(bytes)
               THEN \* except UnicodeDecodeError: delayed_bytes = chunk.new_bytes; continue
                    /\ rs_delayed' = bytes
                    /\ UNCHANGED <<rs_state, rs_variables, rs_log_probs, rs_pc>>
               ELSE IF bytes # <<>> /\ ~(Decodable(chunk.generated_bytes)
                                          /\ Decodable(chunk.force_forwarded_bytes))
               THEN \* chunk.generated_bytes.decode("utf8") raises
                    /\ rs_delayed' = <<>>
                    /\ rs_pc' = "raised"
                    /\ rs_state' = IF Decodable(chunk.generated_bytes)
                                   THEN rs_state \o Decode(chunk.generated_bytes)
                                   ELSE rs_state
                    /\ UNCHANGED <<rs_variables, rs_log_probs>>
               ELSE /\ rs_delayed' = <<>>
                    /\ rs_state' = IF bytes # <<>>
                                   THEN rs_state \o Decode(chunk.generated_bytes)
                                                 \o Decode(chunk.force_forwarded_bytes)
                                   ELSE rs_state
                    /\ rs_variables' = StoreVariables(rs_variables, chunk.capture)
                    /\ rs_log_probs' = StoreLogProbs(rs_log_probs, chunk.capture)
                    /\ UNCHANGED rs_pc
    /\ UNCHANGED <<rs_text0, rs_count0>>
    /\ UNCHANGED nonRunVars

\* the stream is exhausted: _run_stateless returns lm
EndRun ==
    /\ rs_pc = "running"
    /\ rs_pc' = "idle"
    /\ rs_chunk' = NoChunk
    /\ UNCHANGED <<rs_state, rs_token_count, rs_variables, rs_log_probs, rs_delayed, rs_bytes,
                   rs_text0, rs_count0, rs_sum, rs_ids, rs_ops>>
    /\ UNCHANGED nonRunVars

-----------------------------------------------------------------------------
(* GenJson.array: the checks and the item loop (library/_json.py) *)

\* the checks without the one on prefixItems, minItems and items
ArrayBoundsCheckOnly(prefix_items_schema, item_schema, min_items, max_items) ==
    IF max_items # <<>> /\ max_items[1] < min_items THEN "ValueError" ELSE ""

\* the two checks at the head of GenJson.array: the error raised, or ""
ArrayChecks(prefix_items_schema, item_schema, min_items, max_items) ==
    IF Len(prefix_items_schema) < min_items /\ item_schema = "false"
    THEN "ValueError"
    ELSE IF max_items # <<>> /\ max_items[1] < min_items
    THEN "ValueError"
    ELSE ""

\* for i in range(n_to_add), from index i on: "done" when the range is
\* exhausted, "break" when the loop breaks after its assertion,
\* "AssertionError" when the assertion fails
RECURSIVE ItemLoop(_, _, _, _, _)
ItemLoop(i, n_to_add, prefix_items_schema, item_schema, min_items) ==
    IF i >= n_to_add THEN "done"
    ELSE IF i < Len(prefix_items_schema)
    THEN ItemLoop(i + 1, n_to_add, prefix_items_schema, item_schema, min_items)
    ELSE IF item_schema # "false"
    THEN ItemLoop(i + 1, n_to_add, prefix_items_schema, item_schema, min_items)
    ELSE IF i >= min_items THEN "break"
    ELSE "AssertionError"

\* GenJson.array up to the end of the item loop: the error, or how the
\* loop ended
ArrayOutcome(prefix_items_schema, item_schema, min_items, max_items) ==
    LET error == ArrayChecks(prefix_items_schema, item_schema, min_items, max_items)
        n_to_add == IF max_items = <<>>
                    THEN Max({Len(prefix_items_schema), min_items})
                    ELSE max_items[1]
    IN  IF error # "" THEN error
        ELSE ItemLoop(0, n_to_add, prefix_items_schema, item_schema, min_items)

-----------------------------------------------------------------------------
(* Model.__add__: opened_blocks and Model.global_active_blocks (models/_model.py) *)

\* context blocks
MaxBlocks == 3

\* additions to the model
MaxAdds == 3

Blocks == 1..MaxBlocks

\* the texts appended to the state: the opener of block b, its closer, the
\* value added
Opener(b) == b

Closer(b) == 0 - b

AddedValue == 0

\* list(reversed(...)) of a sequence
Reversed(s) == [i \in 1..Len(s) |-> s[Len(s) - i + 1]]

\* the elements of s that are not in S, in order
Without(s, S) == SelectSeq(s, LAMBDA b : b \notin S)

\* a model in __add__: its opened_blocks, its state, and the exception raised
Lm(opened, state, error) == [opened |-> opened, state |-> state, error |-> error]

RECURSIVE add(_, _, _)
RECURSIVE ExitLoop(_, _, _)
RECURSIVE EnterLoop(_, _, _)

\* for context in exit_blocks: pos, close_text = lm.opened_blocks[context];
\* del lm.opened_blocks[context]; ...; lm += context.closer; lm = lm.copy()
ExitLoop(lm, exit_blocks, active) ==
    IF exit_blocks = <<>> \/ lm.error # "" THEN lm
    ELSE LET context == Head(exit_blocks)
         IN  IF context \notin Range(lm.opened)
             THEN Lm(lm.opened, lm.state, "KeyError")
             ELSE ExitLoop(add(Lm(Without(lm.opened, {context}), lm.state, ""),
                               Closer(context), active),
                           Tail(exit_blocks), active)

\* for context in enter_blocks: lm += context.opener; lm = lm.copy();
\* lm.opened_blocks[context] = (len(lm._state), closer_text)
EnterLoop(lm, enter_blocks, active) ==
    IF enter_blocks = <<>> \/ lm.error # "" THEN lm
    ELSE EnterLoop(add(lm, Opener(Head(enter_blocks)), active), Tail(enter_blocks), active)

\* Model.__add__(self, value) for a text: the copy, the blocks to enter
\* (marked as opened at once), the blocks to exit, the two loops, the value
add(self, value, active) ==
    LET enter_blocks == Without(active, Range(self.opened))
        lm == Lm(self.opened \o enter_blocks, self.state, "")
        exit_blocks == Without(Reversed(lm.opened), Range(active))
        exited == ExitLoop(lm, exit_blocks, active)
        entered == EnterLoop(exited, enter_blocks, active)
    IN  IF entered.error # "" THEN entered
        ELSE Lm(entered.opened, Append(entered.state, value), "")

NoAddition == [exits |-> <<>>, active |-> <<>>, before |-> <<>>, error |-> "none"]

BlocksInit ==
    /\ bk_active = <<>>
    /\ bk_opened = <<>>
    /\ bk_state = <<>>
    /\ bk_adds = 0
    /\ bk_last = NoAddition

BlocksParked ==
    /\ bk_active = <<>>
    /\ bk_opened = <<>>
    /\ bk_state = <<>>
    /\ bk_adds = 0
    /\ bk_last = <<>>

\* `with block:` is entered: the block is appended to global_active_blocks
BlockEnter ==
    /\ \E b \in Blocks \ Range(bk_active) :
        bk_active' = Append(bk_active, b)
    /\ bk_last' = NoAddition
    /\ UNCHANGED <<bk_opened, bk_state, bk_adds>>
    /\ UNCHANGED nonBlocksVars

\* the innermost `with block:` is left: the block is removed
BlockExit ==
    /\ bk_active # <<>>
    /\ bk_active' = SubSeq(bk_active, 1, Len(bk_active) - 1)
    /\ bk_last' = NoAddition
    /\ UNCHANGED <<bk_opened, bk_state, bk_adds>>
    /\ UNCHANGED nonBlocksVars

\* m = m + v
BlockAdd ==
    /\ bk_adds < MaxAdds
    /\ bk_adds' = bk_adds + 1
    /\ LET out == add(Lm(bk_opened, bk_state, ""), AddedValue, bk_active)
       IN  /\ bk_last' = [exits |-> Without(Reversed(bk_opened), Range(bk_active)),
                          active |-> bk_active, before |-> bk_state, error |-> out.error]
           /\ IF out.error = ""
              THEN bk_opened' = out.opened /\ bk_state' = out.state
              ELSE UNCHANGED <<bk_opened, bk_state>>
    /\ UNCHANGED bk_active
    /\ UNCHANGED nonBlocksVars

-----------------------------------------------------------------------------
(* Engine.get_next_token and Engine.sample_with_temperature (models/_model.py) *)

\* the values the logits take
LogitValues == {0, 1, 256}

\* the values of the bytes of a mask (np.uint8): 0 and the ends of the
\* nonzero range
MaskByteValues == {0, 1, 255}

\* masks with at least one nonzero byte
ByteMasks == {m \in [Vocab -> MaskByteValues] : \E t \in Vocab : m[t] # 0}

\* temperatures, in units of 0.00005: 0.0, 0.00005, 0.0001 and 1.0
Temperatures == {0, 1, 2, 20000}

\* the dtype of the array of logits
Dtypes == {"float32", "float64"}

SamplingCalls ==
    [logits : [Vocab -> LogitValues], dtype : Dtypes,
     mask : {<<>>} \cup {<<m>> : m \in ByteMasks}, temperature : Temperatures]

\* `temperature < 0.0001`
Greedy(temperature) == temperature < 2

\* np.exp(x) is 0.0 below -745 in float64 and below -103 in float32
ExpLimit(dtype) == IF dtype = "float32" THEN 103 ELSE 745

\* np.exp(-(d / temperature)) == 0.0, for a difference d of two logits
ExpIsZero(dtype, d, temperature) == d * 20000 > ExpLimit(dtype) * temperature

\* logits += np.frombuffer(mask, dtype=np.uint8)
AddMask(logits, mask) ==
    IF mask = <<>> THEN logits ELSE [t \in DOMAIN logits |-> logits[t] + mask[1][t]]

\* int(np.argmax(logits)): the first index of the maximum
argmax(logits) ==
    Min({t \in DOMAIN logits : \A u \in DOMAIN logits : logits[u] <= logits[t]})

\* np.random.choice(len(logits), p=softmax(logits / temperature)): any
\* index whose probability is not 0.0
choice(logits, dtype, temperature) ==
    {t \in DOMAIN logits :
        ~ExpIsZero(dtype, Max({logits[u] : u \in DOMAIN logits}) - logits[t], temperature)}

\* the tokens sample_with_temperature can return
sample_with_temperature(logits, dtype, mask, temperature) ==
    IF Greedy(temperature)
    THEN {argmax(AddMask(logits, mask))}
    ELSE choice(AddMask(logits, mask), dtype, temperature)

SamplingInit ==
    /\ sw_call \in SamplingCalls
    /\ sw_out = <<>>

SamplingParked ==
    /\ sw_call = <<>>
    /\ sw_out = <<>>

\* get_next_token with a temperature below 0.0001
ReturnArgmax ==
    /\ sw_out = <<>>
    /\ Greedy(sw_call.temperature)
    /\ \E token \in sample_with_temperature(sw_call.logits, sw_call.dtype, sw_call.mask, sw_call.temperature) :
        sw_out' = <<token>>
    /\ UNCHANGED sw_call
    /\ UNCHANGED nonSamplingVars

\* get_next_token with a temperature of 0.0001 or more
ReturnSampled ==
    /\ sw_out = <<>>
    /\ ~Greedy(sw_call.temperature)
    /\ \E token \in sample_with_temperature(sw_call.logits, sw_call.dtype, sw_call.mask, sw_call.temperature) :
        sw_out' = <<token>>
    /\ UNCHANGED sw_call
    /\ UNCHANGED nonSamplingVars

-----------------------------------------------------------------------------
(* AnthropicSession.__call__, Anthropic.add_call and count_calls (llms/_anthropic.py) *)

\* max_retries is 0..MaxRetries
MaxRetries == 2

\* max_calls_per_min is 1..MaxCallsPerMin
MaxCallsPerMin == 2

\* uncached requests at most
MaxRequests == 2

\* the clock stops here
MaxNow == 70

\* count_calls drops the calls older than 60 seconds
Window == 60

\* asyncio.sleep(1) while the rate limit is exceeded
RateLimitSleep == 1

\* asyncio.sleep(3) after a failed call
RetrySleep == 3

\* the seconds that pass between two requests
IdleTimes == {20, 61}

\* add_call: self.call_history.append(now)
add_call(call_history, now) == Append(call_history, now)

\* the deque after the loop of count_calls: popleft while the first
\* timestamp is older than now - 60
RECURSIVE PopOld(_, _)
PopOld(call_history, now) ==
    IF call_history # <<>> /\ Head(call_history) < now - Window
    THEN PopOld(Tail(call_history), now)
    ELSE call_history

\* count_calls: the length of the deque after the loop
count_calls(call_history, now) == Len(PopOld(call_history, now))

\* `while self.llm.count_calls() > self.llm.max_calls_per_min`
RateLimitExceeded(count, max_calls_per_min) == count > max_calls_per_min

\* the request gives up one failure later
TooManyFailuresLate(fail_count, max_retries) == fail_count > max_retries + 1

\* `if fail_count > self.llm.max_retries: raise`
TooManyFailures(fail_count, max_retries) == fail_count > max_retries

AnthropicInit ==
    /\ an_max_retries \in 0..MaxRetries
    /\ an_max_calls_per_min \in 1..MaxCallsPerMin
    /\ an_now = 0
    /\ an_call_history = <<>>
    /\ an_pc = "idle"
    /\ an_fail_count = 0
    /\ an_attempts = 0
    /\ an_requests = 0

AnthropicParked ==
    /\ an_max_retries = 0
    /\ an_max_calls_per_min = 0
    /\ an_now = 0
    /\ an_call_history = <<>>
    /\ an_pc = ""
    /\ an_fail_count = 0
    /\ an_attempts = 0
    /\ an_requests = 0

\* time passes between two requests
Elapse ==
    /\ an_pc \in {"idle", "done", "raised"}
    /\ \E d \in IdleTimes :
        /\ an_now + d <= MaxNow
        /\ an_now' = an_now + d
    /\ UNCHANGED <<an_max_retries, an_max_calls_per_min, an_call_history, an_pc,
                   an_fail_count, an_attempts, an_requests>>
    /\ UNCHANGED nonAnthropicVars

\* __call__ for a request that is not in the cache
SessionCall ==
    /\ an_pc \in {"idle", "done", "raised"}
    /\ an_requests < MaxRequests
    /\ an_requests' = an_requests + 1
    /\ an_pc' = "wait"
    /\ an_fail_count' = 0
    /\ an_attempts' = 0
    /\ UNCHANGED <<an_max_retries, an_max_calls_per_min, an_now, an_call_history>>
    /\ UNCHANGED nonAnthropicVars

\* the rate limit is exceeded: await asyncio.sleep(1)
RateLimitWait ==
    /\ an_pc = "wait"
    /\ RateLimitExceeded(count_calls(an_call_history, an_now), an_max_calls_per_min)
    /\ an_now + RateLimitSleep <= MaxNow
    /\ an_call_history' = PopOld(an_call_history, an_now)
    /\ an_now' = an_now + RateLimitSleep
    /\ UNCHANGED <<an_max_retries, an_max_calls_per_min, an_pc, an_fail_count, an_attempts, an_requests>>
    /\ UNCHANGED nonAnthropicVars

\* the rate limit is not exceeded: fail_count = 0 and the loop of calls
RateLimitPass ==
    /\ an_pc = "wait"
    /\ ~RateLimitExceeded(count_calls(an_call_history, an_now), an_max_calls_per_min)
    /\ an_call_history' = PopOld(an_call_history, an_now)
    /\ an_pc' = "call"
    /\ UNCHANGED <<an_max_retries, an_max_calls_per_min, an_now, an_fail_count, an_attempts, an_requests>>
    /\ UNCHANGED nonAnthropicVars

\* add_call and a call of self.llm.caller that returns: break
CallReturns ==
    /\ an_pc = "call"
    /\ an_call_history' = add_call(an_call_history, an_now)
    /\ an_attempts' = an_attempts + 1
    /\ an_pc' = "done"
    /\ UNCHANGED <<an_max_retries, an_max_calls_per_min, an_now, an_fail_count, an_requests>>
    /\ UNCHANGED nonAnthropicVars

\* add_call and a call of self.llm.caller that raises: sleep(3),
\* fail_count += 1, and raise when there were too many failures
CallRaises ==
    /\ an_pc = "call"
    /\ an_now + RetrySleep <= MaxNow
    /\ an_call_history' = add_call(an_call_history, an_now)
    /\ an_attempts' = an_attempts + 1
    /\ an_now' = an_now + RetrySleep
    /\ an_fail_count' = an_fail_count + 1
    /\ an_pc' = IF TooManyFailures(an_fail_count', an_max_retries) THEN "raised" ELSE "call"
    /\ UNCHANGED <<an_max_retries, an_max_calls_per_min, an_requests>>
    /\ UNCHANGED nonAnthropicVars

-----------------------------------------------------------------------------
(* gen with tools (library/_gen.py) *)

\* tools at most
MaxTools == 2

\* max_tokens at most
MaxToolTokens == 3

Tools == 0..(MaxTools - 1)

\* the captures one run of select(options) can produce: one option
\* is taken, and its capture is stored when the run delivers it
GrmCaptures == {{}} \cup {{i} : i \in Tools}

\* new_token_count of one run of grm
GrmTokens == {0, 1}

\* lm += grm: the tokens are counted and the captures stored
AddGrm(lm, captures, tokens) ==
    [lm EXCEPT !.variables = [i \in Tools |-> lm.variables[i] \/ i \in captures],
               !.token_count = @ + tokens]

\* lm += tools[i].call_grammar + tools[i].tool_call(), hidden or not: the
\* call grammar is run
RunTool(lm, i) == [lm EXCEPT !.token_count = @ + 1]

\* Model.remove(tool_i): a copy of lm without the variable, or lm itself
removeTool(lm, tool_i) ==
    IF lm.variables[tool_i] THEN [lm EXCEPT !.variables[tool_i] = FALSE] ELSE lm

\* the statement `lm.remove(tool_i)`: the model returned is dropped and lm
\* stays bound to the model it was bound to
ExpressionStatement(lm, result) == lm

\* for i in range(len(tools)): the tool is run if tool{i} is in lm, then
\* lm.remove(tool_i)
RECURSIVE ToolLoop(_, _)
ToolLoop(lm, i) ==
    IF i \notin Tools THEN lm
    ELSE LET called == IF lm.variables[i] THEN RunTool(lm, i) ELSE lm
         IN  ToolLoop(ExpressionStatement(called, removeTool(called, i)), i + 1)

\* the tools the for loop runs: those with tool{i} in lm
ToolsCalled(lm) == {i \in Tools : lm.variables[i]}

ToolsInit ==
    /\ gt_call \in [max_tokens : 1..MaxToolTokens, hide_tool_call : BOOLEAN,
                    initial_token_count : {0, 1}]
    /\ gt_lm = [variables |-> [i \in Tools |-> FALSE],
                token_count |-> gt_call.initial_token_count, suffix |-> FALSE]
    /\ gt_pc = "loop"
    /\ gt_captured = {}
    /\ gt_ran = {}

ToolsParked ==
    /\ gt_call = <<>>
    /\ gt_lm = <<>>
    /\ gt_pc = ""
    /\ gt_captured = {}
    /\ gt_ran = {}

\* one iteration of the while loop in which a tool is called
GenToolCalled ==
    /\ gt_pc = "loop"
    /\ gt_lm.token_count <= gt_call.max_tokens + gt_call.initial_token_count
    /\ \E captures \in GrmCaptures, tokens \in GrmTokens :
        LET lm == AddGrm(gt_lm, captures, tokens)
        IN  /\ ToolsCalled(lm) # {}
            /\ gt_captured' = captures
            /\ gt_ran' = ToolsCalled(lm)
            /\ gt_lm' = ToolLoop(lm, 0)
    /\ UNCHANGED <<gt_call, gt_pc>>
    /\ UNCHANGED nonToolsVars

\* one iteration in which no tool is called: lm += suffix; break
GenNoToolCalled ==
    /\ gt_pc = "loop"
    /\ gt_lm.token_count <= gt_call.max_tokens + gt_call.initial_token_count
    /\ \E captures \in GrmCaptures, tokens \in GrmTokens :
        LET lm == AddGrm(gt_lm, captures, tokens)
        IN  /\ ToolsCalled(lm) = {}
            /\ gt_captured' = captures
            /\ gt_ran' = {}
            /\ gt_lm' = [ToolLoop(lm, 0) EXCEPT !.suffix = TRUE]
    /\ gt_pc' = "returned"
    /\ UNCHANGED gt_call
    /\ UNCHANGED nonToolsVars

\* the test of the while loop fails: return lm
GenTokensSpent ==
    /\ gt_pc = "loop"
    /\ gt_lm.token_count > gt_call.max_tokens + gt_call.initial_token_count
    /\ gt_pc' = "returned"
    /\ UNCHANGED <<gt_call, gt_lm, gt_captured, gt_ran>>
    /\ UNCHANGED nonToolsVars

-----------------------------------------------------------------------------
(* _process_node (_json_schema_to_grammar.py) *)

\* properties of the object at most
MaxNodeProps == 4

\* properties of a nested object at most
MaxNestedProps == 2

\* a schema node: its type and, for an object, the nodes of its properties
\* in the order of the dict
SchemaNode(type, properties) == [type |-> type, properties |-> properties]

\* string and integer, and a type _process_node does not know
LeafNodes == {SchemaNode(t, <<>>) : t \in {"string", "integer", "number"}}

NestedNodes ==
    {SchemaNode("object", [i \in 1..n |-> SchemaNode("string", <<>>)]) : n \in 1..MaxNestedProps}

ObjectNodes ==
    UNION {{SchemaNode("object", p) : p \in [1..n -> LeafNodes \cup NestedNodes]} :
                n \in 1..MaxNodeProps}

\* a child of a Join: what it is and the tokens it matches, whitespace as
\* the token "ws"
Child(kind, text) == [kind |-> kind, text |-> text]

\* _COMMA and _OPTIONAL_WHITESPACE
CommaChild == Child("comma", <<",">>)

WhitespaceChild == Child("ws", <<"ws">>)

\* what _process_node gives: the exception raised, the children of the Join
\* of an object, and the tokens the grammar matches
NodeGrammar(error, children, text) == [error |-> error, children |-> children, text |-> text]

\* the texts of the children, one after the other
RECURSIVE JoinText(_)
JoinText(children) ==
    IF children = <<>> THEN <<>> ELSE Head(children).text \o JoinText(Tail(children))

\* `if len(properties) < len(node["properties"])`
MoreProperties(properties, i, n) == Len(properties) < n

RECURSIVE _process_node(_)
RECURSIVE PropertiesLoop(_, _, _)

\* for name, nxt_node in node["properties"].items(): the member is
\* appended, then the comma and the whitespace
PropertiesLoop(items, i, properties) ==
    IF i > Len(items) THEN NodeGrammar("", properties, <<>>)
    ELSE LET value == _process_node(items[i])
             nxt == Child("member", <<"key", "ws", ":", "ws">> \o value.text)
             appended == Append(properties, nxt)
         IN  IF value.error # "" THEN NodeGrammar(value.error, <<>>, <<>>)
             ELSE PropertiesLoop(items, i + 1,
                    IF MoreProperties(appended, i, Len(items))
                    THEN appended \o <<CommaChild, WhitespaceChild>>
                    ELSE appended)

_process_node(node) ==
    CASE node.type = "string" -> NodeGrammar("", <<>>, <<"string">>)
      [] node.type = "integer" -> NodeGrammar("", <<>>, <<"integer">>)
      [] node.type = "object" ->
            LET looped == PropertiesLoop(node.properties, 1, <<>>)
            IN  IF looped.error # "" THEN looped
                ELSE NodeGrammar("", looped.children,
                             <<"{">> \o JoinText(looped.children) \o <<"}">>)
      [] OTHER -> NodeGrammar("ValueError", <<>>, <<>>)

SchemaInit ==
    /\ sg_node \in ObjectNodes
    /\ sg_out = <<>>

SchemaParked ==
    /\ sg_node = <<>>
    /\ sg_out = <<>>

\* json_schema_to_grammar returns the grammar
ProcessNode ==
    /\ sg_out = <<>>
    /\ _process_node(sg_node).error = ""
    /\ sg_out' = <<_process_node(sg_node)>>
    /\ UNCHANGED sg_node
    /\ UNCHANGED nonSchemaVars

\* json_schema_to_grammar raises ValueError
ProcessNodeRaises ==
    /\ sg_out = <<>>
    /\ _process_node(sg_node).error # ""
    /\ sg_out' = <<_process_node(sg_node)>>
    /\ UNCHANGED sg_node
    /\ UNCHANGED nonSchemaVars

-----------------------------------------------------------------------------
(* Messages, serialize_message and deserialize_message (visual/_message.py) *)

MessageClasses ==
    {"TraceMessage", "MetricMessage", "ExecutionCompletedMessage",
     "ExecutionCompletedOutputMessage", "ResetDisplayMessage", "ClientReadyMessage"}

\* a field value of a message: its Python type and its text
Value(type, repr) == [type |-> type, repr |-> repr]

\* the values of an annotation that the messages drawn carry
ValuesOf(annotation) ==
    CASE annotation = "int" -> {Value("int", "0"), Value("int", "1"), Value("int", "2")}
      [] annotation = "Optional[int]" -> {Value("None", "null"), Value("int", "0"), Value("int", "1")}
      [] annotation = "Optional[NodeAttr]" -> {Value("None", "null"), Value("NodeAttr", "{}")}
      [] annotation = "str" -> {Value("str", "a"), Value("str", "b")}
      [] annotation = "Union[float, str, list[float], list[str]]" ->
            {Value("float", "1.5"), Value("str", "a"), Value("list[float]", "[1.5]"),
             Value("list[str]", "[a]")}
      [] annotation = "bool" -> {Value("bool", "true"), Value("bool", "false")}
      [] annotation = "list[GenToken]" -> {Value("list[GenToken]", "[]")}

\* the fields a class declares besides class_name, with their annotations
Fields(class) ==
    CASE class = "TraceMessage" ->
            <<<<"trace_id", "int">>, <<"parent_trace_id", "Optional[int]">>,
              <<"node_attr", "Optional[NodeAttr]">>>>
      [] class = "MetricMessage" ->
            <<<<"name", "str">>, <<"value", "Union[float, str, list[float], list[str]]">>,
              <<"scalar", "bool">>>>
      [] class = "ExecutionCompletedMessage" -> <<<<"last_trace_id", "Optional[int]">>>>
      [] class = "ExecutionCompletedOutputMessage" ->
            <<<<"trace_id", "int">>, <<"text", "str">>, <<"tokens", "list[GenToken]">>>>
      [] class = "ResetDisplayMessage" -> <<>>
      [] class = "ClientReadyMessage" -> <<>>

\* GuidanceMessage.__init__: class_name is the name of the class
Message(class, values) == [class_name |-> class, values |-> values]

\* the instances of a class
Instances(class) ==
    {Message(class, v) :
        v \in {w \in [1..Len(Fields(class)) -> UNION {ValuesOf(a) : a \in
                        {"int", "Optional[int]", "Optional[NodeAttr]", "str", "bool",
                         "Union[float, str, list[float], list[str]]", "list[GenToken]"}}] :
                    \A i \in 1..Len(Fields(class)) : w[i] \in ValuesOf(Fields(class)[i][2])}}

\* a JSON value: its kind and its text
JsonValue(kind, text) == [kind |-> kind, text |-> text]

\* model_dump_json of a field value
Dump(value) ==
    CASE value.type \in {"int", "float"} -> JsonValue("number", value.repr)
      [] value.type = "None" -> JsonValue("null", value.repr)
      [] value.type = "str" -> JsonValue("string", value.repr)
      [] value.type = "bool" -> JsonValue("boolean", value.repr)
      [] value.type = "list[float]" -> JsonValue("array of numbers", value.repr)
      [] value.type = "list[str]" -> JsonValue("array of strings", value.repr)
      [] value.type = "list[GenToken]" -> JsonValue("array", value.repr)
      [] value.type = "NodeAttr" -> JsonValue("object", value.repr)

\* the Python type model_validate_json gives a JSON value under an
\* annotation ("" when the value is not valid)
Validated(annotation, parsed) ==
    CASE annotation = "int" /\ parsed.kind = "number" -> "int"
      [] annotation = "Optional[int]" /\ parsed.kind = "number" -> "int"
      [] annotation = "Optional[int]" /\ parsed.kind = "null" -> "None"
      [] annotation = "Optional[NodeAttr]" /\ parsed.kind = "null" -> "None"
      [] annotation = "Optional[NodeAttr]" /\ parsed.kind = "object" -> "NodeAttr"
      [] annotation = "str" /\ parsed.kind = "string" -> "str"
      [] annotation = "bool" /\ parsed.kind = "boolean" -> "bool"
      [] annotation = "list[GenToken]" /\ parsed.kind = "array" -> "list[GenToken]"
      [] annotation = "Union[float, str, list[float], list[str]]" /\ parsed.kind = "number" -> "float"
      [] annotation = "Union[float, str, list[float], list[str]]" /\ parsed.kind = "string" -> "str"
      [] annotation = "Union[float, str, list[float], list[str]]"
            /\ parsed.kind = "array of numbers" -> "list[float]"
      [] annotation = "Union[float, str, list[float], list[str]]"
            /\ parsed.kind = "array of strings" -> "list[str]"
      [] OTHER -> ""

\* serialize_message: the JSON object with class_name and the fields
serialize_message(message) ==
    [class_name |-> message.class_name,
     members |-> [i \in 1..Len(message.values) |-> Dump(message.values[i])]]

\* model_registry
model_registry ==
    [k \in {"TraceMessage", "ExecutionCompleted", "ExecutionCompletedOutputMessage",
            "ResetDisplayMessage", "ClientReadyMessage", "MetricMessage"} |->
        IF k = "ExecutionCompleted" THEN "ExecutionCompletedMessage" ELSE k]

\* model_class.model_validate_json(data): the fields are validated and the
\* class is constructed
model_validate_json(model_class, data) ==
    LET fields == Fields(model_class)
        types == [i \in 1..Len(fields) |->
                    IF i \in DOMAIN data.members
                    THEN Validated(fields[i][2], data.members[i]) ELSE ""]
    IN  IF \E i \in 1..Len(fields) : types[i] = ""
        THEN [error |-> "ValidationError", message |-> <<>>]
        ELSE [error |-> "",
              message |-> <<Message(model_class,
                                    [i \in 1..Len(fields) |->
                                        Value(types[i], data.members[i].text)])>>]

\* deserialize_message
deserialize_message(data) ==
    IF data.class_name \notin DOMAIN model_registry
    THEN [error |-> "ValueError", message |-> <<>>]
    ELSE model_validate_json(model_registry[data.class_name], data)

\* JSON texts that no serialize_message wrote: the class_name is a key of
\* the registry that is no class, or is unknown
ForeignData ==
    {[class_name |-> c, members |-> <<JsonValue("null", "null")>>] :
        c \in {"ExecutionCompleted", "GuidanceMessage"}}

MessageInit ==
    /\ \/ /\ mg_message \in {<<m>> : m \in UNION {Instances(c) : c \in MessageClasses}}
          /\ mg_data = <<>>
       \/ /\ mg_message = <<>>
          /\ mg_data \in {<<d>> : d \in ForeignData}
    /\ mg_out = <<>>

MessageParked ==
    /\ mg_message = <<>>
    /\ mg_data = <<>>
    /\ mg_out = <<>>

\* serialize_message(m)
SerializeMessage ==
    /\ mg_message # <<>>
    /\ mg_data = <<>>
    /\ mg_data' = <<serialize_message(mg_message[1])>>
    /\ UNCHANGED <<mg_message, mg_out>>
    /\ UNCHANGED nonMessageVars

\* deserialize_message(data) returns a message
DeserializeMessage ==
    /\ mg_data # <<>>
    /\ mg_out = <<>>
    /\ deserialize_message(mg_data[1]).error = ""
    /\ mg_out' = <<deserialize_message(mg_data[1])>>
    /\ UNCHANGED <<mg_message, mg_data>>
    /\ UNCHANGED nonMessageVars

\* deserialize_message(data) raises
DeserializeRaises ==
    /\ mg_data # <<>>
    /\ mg_out = <<>>
    /\ deserialize_message(mg_data[1]).error # ""
    /\ mg_out' = <<deserialize_message(mg_data[1])>>
    /\ UNCHANGED <<mg_message, mg_data>>
    /\ UNCHANGED nonMessageVars

-----------------------------------------------------------------------------
(* Monitor.start, stop, reset and _monitor_fn (models/_model.py) *)

\* monitoring processes started at most
MaxProcesses == 3

\* Monitor.max_size
MonitorMaxSize == 2

\* the flag after stop(): self.stop_flag.value = True
FlagAfterStop == TRUE

\* the flag start() leaves to the new process: start() does not assign it
FlagAfterStart(stop_flag) == stop_flag

\* for metrics in metrics_dict.values(): metrics.clear()
Cleared == <<>>

\* the list after a sample was appended and, when it is longer than
\* max_size, its first item popped
AppendSample(metrics, p) ==
    LET appended == Append(metrics, p)
    IN  IF Len(appended) > MonitorMaxSize THEN Tail(appended) ELSE appended

MonitorInit ==
    /\ mo_stop_flag = FALSE
    /\ mo_process = 0
    /\ mo_procs = <<>>
    /\ mo_metrics = <<>>
    /\ mo_pc = "idle"
    /\ mo_last = "none"
    /\ mo_stopped = FALSE

MonitorParked ==
    /\ mo_stop_flag = FALSE
    /\ mo_process = 0
    /\ mo_procs = <<>>
    /\ mo_metrics = <<>>
    /\ mo_pc = ""
    /\ mo_last = ""
    /\ mo_stopped = FALSE

\* Monitor.start(): a new process is created and started
MonitorStart ==
    /\ mo_pc = "idle"
    /\ Len(mo_procs) < MaxProcesses
    /\ mo_procs' = Append(mo_procs, "running")
    /\ mo_process' = Len(mo_procs')
    /\ mo_stop_flag' = FlagAfterStart(mo_stop_flag)
    /\ mo_last' = IF mo_last = "stop" THEN "start after stop" ELSE "start"
    /\ UNCHANGED <<mo_metrics, mo_pc, mo_stopped>>
    /\ UNCHANGED nonMonitorVars

\* Monitor.stop() without a process: nothing is done
MonitorStopNoProcess ==
    /\ mo_pc = "idle"
    /\ mo_process = 0
    /\ mo_last' = "stop"
    /\ UNCHANGED <<mo_stop_flag, mo_process, mo_procs, mo_metrics, mo_pc, mo_stopped>>
    /\ UNCHANGED nonMonitorVars

\* Monitor.stop() or reset() with a process: the flag is set and the caller
\* waits in process.join()
MonitorStopBegin ==
    /\ mo_pc = "idle"
    /\ mo_process # 0
    /\ mo_stop_flag' = FlagAfterStop
    /\ mo_stopped' = TRUE
    /\ \E call \in {"stop", "reset"} :
        /\ call = "reset" => Len(mo_procs) < MaxProcesses
        /\ mo_pc' = call
    /\ UNCHANGED <<mo_process, mo_procs, mo_metrics, mo_last>>
    /\ UNCHANGED nonMonitorVars

\* process.join() of stop() returns: the lists are cleared
MonitorStopEnd ==
    /\ mo_pc = "stop"
    /\ mo_procs[mo_process] = "exited"
    /\ mo_metrics' = Cleared
    /\ mo_pc' = "idle"
    /\ mo_last' = "stop"
    /\ UNCHANGED <<mo_stop_flag, mo_process, mo_procs, mo_stopped>>
    /\ UNCHANGED nonMonitorVars

\* Monitor.reset(), after its stop(): the lists are cleared and start()
\* is called
MonitorReset ==
    /\ \/ mo_pc = "reset" /\ mo_procs[mo_process] = "exited"
       \/ mo_pc = "idle" /\ mo_process = 0
    /\ Len(mo_procs) < MaxProcesses
    /\ mo_metrics' = Cleared
    /\ mo_procs' = Append(mo_procs, "running")
    /\ mo_process' = Len(mo_procs')
    /\ mo_stop_flag' = FlagAfterStart(mo_stop_flag)
    /\ mo_pc' = "idle"
    /\ mo_last' = "reset"
    /\ UNCHANGED mo_stopped
    /\ UNCHANGED nonMonitorVars

\* _monitor_fn: `while not stop_flag.value` with the flag clear; a sample is
\* appended; when the pass took less than the interval the loop goes on
MonitorCollect(p) ==
    /\ mo_procs[p] = "running"
    /\ ~mo_stop_flag
    /\ mo_metrics' = AppendSample(mo_metrics, p)
    /\ UNCHANGED <<mo_stop_flag, mo_process, mo_procs, mo_pc, mo_last, mo_stopped>>
    /\ UNCHANGED nonMonitorVars

\* _monitor_fn: a pass that took longer than the interval: sleep_time < 0,
\* time.sleep(sleep_time) raises ValueError, the except clause ends the
\* function
MonitorCollectLate(p) ==
    /\ mo_procs[p] = "running"
    /\ ~mo_stop_flag
    /\ mo_metrics' = AppendSample(mo_metrics, p)
    /\ mo_procs' = [mo_procs EXCEPT ![p] = "exited"]
    /\ UNCHANGED <<mo_stop_flag, mo_process, mo_pc, mo_last, mo_stopped>>
    /\ UNCHANGED nonMonitorVars

\* _monitor_fn: `while not stop_flag.value` with the flag set: the function
\* returns
MonitorExit(p) ==
    /\ mo_procs[p] = "running"
    /\ mo_stop_flag
    /\ mo_procs' = [mo_procs EXCEPT ![p] = "exited"]
    /\ UNCHANGED <<mo_stop_flag, mo_process, mo_metrics, mo_pc, mo_last, mo_stopped>>
    /\ UNCHANGED nonMonitorVars

-----------------------------------------------------------------------------
(* Model.role and _apply_chunk (new/model.py) *)

\* RoleStart chunks at most
MaxRoles == 3

\* content chunks at most
MaxContent == 2

\* the chunks: RoleStart(role) with a new id, RoleEnd(role_start.id), content
MessageChunk(kind, id) == [kind |-> kind, id |-> id]

\* self._api_state.apply_chunk(chunk) does not raise
ApiAccepts(api, active, chunk) ==
    CASE chunk.kind = "RoleStart" ->
            \/ api = "nested"
            \/ api = "chat" /\ active = <<>>
      [] chunk.kind = "RoleEnd" -> active # <<>> /\ active[Len(active)] = chunk.id
      [] OTHER -> TRUE

\* the roles open in the API state after the chunk
ApiApply(active, chunk) ==
    CASE chunk.kind = "RoleStart" -> Append(active, chunk.id)
      [] chunk.kind = "RoleEnd" -> SubSeq(active, 1, Len(active) - 1)
      [] OTHER -> active

\* the RoleEnd is applied only when the body ended normally
OnNormalExitOnly(raising) == ~raising

\* try: yield / finally: the clause runs however the body ended
FinallyRuns(raising) == TRUE

RoleInit ==
    /\ ro_api \in {"completion", "chat", "nested"}
    /\ ro_active = <<>>
    /\ ro_blocks = <<>>
    /\ ro_log = <<>>
    /\ ro_ids = 0
    /\ ro_rejected = {}
    /\ ro_raising = FALSE
    /\ ro_content = 0

RoleParked ==
    /\ ro_api = ""
    /\ ro_active = <<>>
    /\ ro_blocks = <<>>
    /\ ro_log = <<>>
    /\ ro_ids = 0
    /\ ro_rejected = {}
    /\ ro_raising = FALSE
    /\ ro_content = 0

\* `with model.role(r):` and the API state takes the RoleStart
RoleEnter ==
    /\ ~ro_raising
    /\ ro_ids < MaxRoles
    /\ LET role_start == MessageChunk("RoleStart", ro_ids + 1)
       IN  /\ ApiAccepts(ro_api, ro_active, role_start)
           /\ ro_active' = ApiApply(ro_active, role_start)
           /\ ro_log' = Append(ro_log, role_start)
           /\ ro_blocks' = Append(ro_blocks, role_start.id)
    /\ ro_ids' = ro_ids + 1
    /\ UNCHANGED <<ro_api, ro_rejected, ro_raising, ro_content>>
    /\ UNCHANGED nonRoleVars

\* `with model.role(r):` and the API state raises: the exception leaves
\* role() before the try
RoleRejected ==
    /\ ~ro_raising
    /\ ro_ids < MaxRoles
    /\ LET role_start == MessageChunk("RoleStart", ro_ids + 1)
       IN  /\ ~ApiAccepts(ro_api, ro_active, role_start)
           /\ ro_rejected' = ro_rejected \cup {role_start.id}
    /\ ro_ids' = ro_ids + 1
    /\ ro_raising' = TRUE
    /\ UNCHANGED <<ro_api, ro_active, ro_blocks, ro_log, ro_content>>
    /\ UNCHANGED nonRoleVars

\* model += node in the body: a content chunk is applied
RoleContent ==
    /\ ~ro_raising
    /\ ro_content < MaxContent
    /\ ro_content' = ro_content + 1
    /\ ro_log' = Append(ro_log, MessageChunk("content", 0))
    /\ UNCHANGED <<ro_api, ro_active, ro_blocks, ro_ids, ro_rejected, ro_raising>>
    /\ UNCHANGED nonRoleVars

\* the body of the innermost block raises
RoleBodyRaises ==
    /\ ~ro_raising
    /\ ro_blocks # <<>>
    /\ ro_raising' = TRUE
    /\ UNCHANGED <<ro_api, ro_active, ro_blocks, ro_log, ro_ids, ro_rejected, ro_content>>
    /\ UNCHANGED nonRoleVars

\* the innermost with-body ends, normally or by the exception on its way:
\* the finally clause applies RoleEnd(role_start.id)
RoleExit ==
    /\ ro_blocks # <<>>
    /\ LET role_end == MessageChunk("RoleEnd", ro_blocks[Len(ro_blocks)])
       IN  IF FinallyRuns(ro_raising)
           THEN IF ApiAccepts(ro_api, ro_active, role_end)
                THEN /\ ro_active' = ApiApply(ro_active, role_end)
                     /\ ro_log' = Append(ro_log, role_end)
                     /\ UNCHANGED ro_raising
                ELSE /\ ro_raising' = TRUE
                     /\ UNCHANGED <<ro_active, ro_log>>
           ELSE UNCHANGED <<ro_active, ro_log, ro_raising>>
    /\ ro_blocks' = SubSeq(ro_blocks, 1, Len(ro_blocks) - 1)
    /\ UNCHANGED <<ro_api, ro_ids, ro_rejected, ro_content>>
    /\ UNCHANGED nonRoleVars

\* the exception is caught, in an enclosing body or outside all blocks
RoleCatch ==
    /\ ro_raising
    /\ ro_raising' = FALSE
    /\ UNCHANGED <<ro_api, ro_active, ro_blocks, ro_log, ro_ids, ro_rejected, ro_content>>
    /\ UNCHANGED nonRoleVars

-----------------------------------------------------------------------------
(* Specifications *)

\* the engine loop
Init == EngineInit /\ JoinParked /\ JsonParked /\ RefParked /\ AllOfParked /\ IntegerParked /\ RegexParked /\ SelfCallParked /\ ModelParked /\ StreamParked /\ RunParked /\ BlocksParked /\ SamplingParked /\ AnthropicParked /\ ToolsParked /\ SchemaParked /\ MessageParked /\ MonitorParked /\ RoleParked

Next == EngineNext

Spec == Init /\ [][Next]_vars

\* one call of GenJson._join
InitJoin == JoinInit /\ EngineParked /\ JsonParked /\ RefParked /\ AllOfParked /\ IntegerParked /\ RegexParked /\ SelfCallParked /\ ModelParked /\ StreamParked /\ RunParked /\ BlocksParked /\ SamplingParked /\ AnthropicParked /\ ToolsParked /\ SchemaParked /\ MessageParked /\ MonitorParked /\ RoleParked

NextJoin == BuildJoin

SpecJoin == InitJoin /\ [][NextJoin]_vars

\* one call of json() with an object or an array schema
InitJson == JsonInit /\ EngineParked /\ JoinParked /\ RefParked /\ AllOfParked /\ IntegerParked /\ RegexParked /\ SelfCallParked /\ ModelParked /\ StreamParked /\ RunParked /\ BlocksParked /\ SamplingParked /\ AnthropicParked /\ ToolsParked /\ SchemaParked /\ MessageParked /\ MonitorParked /\ RoleParked

NextJson == JsonObject \/ JsonArray

SpecJson == InitJson /\ [][NextJson]_vars

\* one GenJson and the ref() calls made on it
InitRef == RefInit /\ EngineParked /\ JoinParked /\ JsonParked /\ AllOfParked /\ IntegerParked /\ RegexParked /\ SelfCallParked /\ ModelParked /\ StreamParked /\ RunParked /\ BlocksParked /\ SamplingParked /\ AnthropicParked /\ ToolsParked /\ SchemaParked /\ MessageParked /\ MonitorParked /\ RoleParked

NextRef ==
    \/ RefCall \/ Ref \/ ClosureEnter \/ Json \/ Object \/ AllOf \/ AddSchema
    \/ ClosureExit \/ AllOfCombine \/ Return \/ Finish
    \/ ClosureRaise \/ Unwind \/ Escape

SpecRef == InitRef /\ [][NextRef]_vars

\* one call of GenJson.allOf
InitAllOf == AllOfInit /\ EngineParked /\ JoinParked /\ JsonParked /\ RefParked /\ IntegerParked /\ RegexParked /\ SelfCallParked /\ ModelParked /\ StreamParked /\ RunParked /\ BlocksParked /\ SamplingParked /\ AnthropicParked /\ ToolsParked /\ SchemaParked /\ MessageParked /\ MonitorParked /\ RoleParked

NextAllOf == CallAllOf

SpecAllOf == InitAllOf /\ [][NextAllOf]_vars

\* one call of GenJson.json with type integer
InitInteger == IntegerInit /\ EngineParked /\ JoinParked /\ JsonParked /\ RefParked /\ AllOfParked /\ RegexParked /\ SelfCallParked /\ ModelParked /\ StreamParked /\ RunParked /\ BlocksParked /\ SamplingParked /\ AnthropicParked /\ ToolsParked /\ SchemaParked /\ MessageParked /\ MonitorParked /\ RoleParked

NextInteger == CallJsonInteger

SpecInteger == InitInteger /\ [][NextInteger]_vars

\* one pattern is compiled and its grammar parses bytes
InitRegex == RegexInit /\ EngineParked /\ JoinParked /\ JsonParked /\ RefParked /\ AllOfParked /\ IntegerParked /\ SelfCallParked /\ ModelParked /\ StreamParked /\ RunParked /\ BlocksParked /\ SamplingParked /\ AnthropicParked /\ ToolsParked /\ SchemaParked /\ MessageParked /\ MonitorParked /\ RoleParked

NextRegex == Transform \/ ConsumeByte \/ MatchFailure

SpecRegex == InitRegex /\ [][NextRegex]_vars

\* two threads call one stateless guidance function
InitSelfCall == SelfCallInit /\ EngineParked /\ JoinParked /\ JsonParked /\ RefParked /\ AllOfParked /\ IntegerParked /\ RegexParked /\ ModelParked /\ StreamParked /\ RunParked /\ BlocksParked /\ SamplingParked /\ AnthropicParked /\ ToolsParked /\ SchemaParked /\ MessageParked /\ MonitorParked /\ RoleParked

NextSelfCall ==
    \E t \in Threads :
        \/ SelfCall(t)
        \/ CheckWrapper(t)
        \/ CreateWrapper(t)
        \/ LoadWrapper(t)
        \/ ReturnReference(t)
        \/ EnterBody(t)
        \/ ReturnNode(t)
        \/ RaiseFromBody(t)
        \/ CatchInBody(t)

SpecSelfCall == InitSelfCall /\ [][NextSelfCall]_vars

\* a program builds models from models
InitModel == ModelInit /\ EngineParked /\ JoinParked /\ JsonParked /\ RefParked /\ AllOfParked /\ IntegerParked /\ RegexParked /\ SelfCallParked /\ StreamParked /\ RunParked /\ BlocksParked /\ SamplingParked /\ AnthropicParked /\ ToolsParked /\ SchemaParked /\ MessageParked /\ MonitorParked /\ RoleParked

NextModel == ToggleBlock \/ AddText \/ AddGrammar \/ Set \/ Remove

SpecModel == InitModel /\ [][NextModel]_vars

\* a stream is iterated: the worker and the consumer interleave
InitStream == StreamInit /\ EngineParked /\ JoinParked /\ JsonParked /\ RefParked /\ AllOfParked /\ IntegerParked /\ RegexParked /\ SelfCallParked /\ ModelParked /\ RunParked /\ BlocksParked /\ SamplingParked /\ AnthropicParked /\ ToolsParked /\ SchemaParked /\ MessageParked /\ MonitorParked /\ RoleParked

NextStream ==
    \/ StreamIter \/ SendToEventQueue \/ WorkerDone \/ WorkerRaised \/ WorkerExit
    \/ QueueGet \/ QueueEmpty \/ IsAlive \/ ThreadJoin

SpecStream == InitStream /\ [][NextStream]_vars

\* a model is extended by strings, variables and runs of the engine
InitRun == RunInit /\ EngineParked /\ JoinParked /\ JsonParked /\ RefParked /\ AllOfParked /\ IntegerParked /\ RegexParked /\ SelfCallParked /\ ModelParked /\ StreamParked /\ BlocksParked /\ SamplingParked /\ AnthropicParked /\ ToolsParked /\ SchemaParked /\ MessageParked /\ MonitorParked /\ RoleParked

NextRun == SetVariable \/ AddString \/ StartRun \/ Chunk \/ EndRun

SpecRun == InitRun /\ [][NextRun]_vars

\* blocks are entered and left around additions to a model
InitBlocks == BlocksInit /\ EngineParked /\ JoinParked /\ JsonParked /\ RefParked /\ AllOfParked /\ IntegerParked /\ RegexParked /\ SelfCallParked /\ ModelParked /\ StreamParked /\ RunParked /\ SamplingParked /\ AnthropicParked /\ ToolsParked /\ SchemaParked /\ MessageParked /\ MonitorParked /\ RoleParked

NextBlocks == BlockEnter \/ BlockExit \/ BlockAdd

SpecBlocks == InitBlocks /\ [][NextBlocks]_vars

\* one call of get_next_token
InitSampling == SamplingInit /\ EngineParked /\ JoinParked /\ JsonParked /\ RefParked /\ AllOfParked /\ IntegerParked /\ RegexParked /\ SelfCallParked /\ ModelParked /\ StreamParked /\ RunParked /\ BlocksParked /\ AnthropicParked /\ ToolsParked /\ SchemaParked /\ MessageParked /\ MonitorParked /\ RoleParked

NextSampling == ReturnArgmax \/ ReturnSampled

SpecSampling == InitSampling /\ [][NextSampling]_vars

\* requests of one session, one after the other
InitAnthropic == AnthropicInit /\ EngineParked /\ JoinParked /\ JsonParked /\ RefParked /\ AllOfParked /\ IntegerParked /\ RegexParked /\ SelfCallParked /\ ModelParked /\ StreamParked /\ RunParked /\ BlocksParked /\ SamplingParked /\ ToolsParked /\ SchemaParked /\ MessageParked /\ MonitorParked /\ RoleParked

NextAnthropic == Elapse \/ SessionCall \/ RateLimitWait \/ RateLimitPass \/ CallReturns \/ CallRaises

SpecAnthropic == InitAnthropic /\ [][NextAnthropic]_vars

\* one call of gen with tools
InitTools == ToolsInit /\ EngineParked /\ JoinParked /\ JsonParked /\ RefParked /\ AllOfParked /\ IntegerParked /\ RegexParked /\ SelfCallParked /\ ModelParked /\ StreamParked /\ RunParked /\ BlocksParked /\ SamplingParked /\ AnthropicParked /\ SchemaParked /\ MessageParked /\ MonitorParked /\ RoleParked

NextTools == GenToolCalled \/ GenNoToolCalled \/ GenTokensSpent

SpecTools == InitTools /\ [][NextTools]_vars

\* one call of json_schema_to_grammar with an object schema
InitSchema == SchemaInit /\ EngineParked /\ JoinParked /\ JsonParked /\ RefParked /\ AllOfParked /\ IntegerParked /\ RegexParked /\ SelfCallParked /\ ModelParked /\ StreamParked /\ RunParked /\ BlocksParked /\ SamplingParked /\ AnthropicParked /\ ToolsParked /\ MessageParked /\ MonitorParked /\ RoleParked

NextSchema == ProcessNode \/ ProcessNodeRaises

SpecSchema == InitSchema /\ [][NextSchema]_vars

\* a message is serialized and the text deserialized
InitMessage == MessageInit /\ EngineParked /\ JoinParked /\ JsonParked /\ RefParked /\ AllOfParked /\ IntegerParked /\ RegexParked /\ SelfCallParked /\ ModelParked /\ StreamParked /\ RunParked /\ BlocksParked /\ SamplingParked /\ AnthropicParked /\ ToolsParked /\ SchemaParked /\ MonitorParked /\ RoleParked

NextMessage == SerializeMessage \/ DeserializeMessage \/ DeserializeRaises

SpecMessage == InitMessage /\ [][NextMessage]_vars

\* the calls of start, stop and reset, and the monitoring processes
InitMonitor == MonitorInit /\ EngineParked /\ JoinParked /\ JsonParked /\ RefParked /\ AllOfParked /\ IntegerParked /\ RegexParked /\ SelfCallParked /\ ModelParked /\ StreamParked /\ RunParked /\ BlocksParked /\ SamplingParked /\ AnthropicParked /\ ToolsParked /\ SchemaParked /\ MessageParked /\ RoleParked

NextMonitor ==
    \/ MonitorStart
    \/ MonitorStopNoProcess
    \/ MonitorStopBegin
    \/ MonitorStopEnd
    \/ MonitorReset
    \/ \E p \in 1..MaxProcesses :
        \/ p \in DOMAIN mo_procs /\ MonitorCollect(p)
        \/ p \in DOMAIN mo_procs /\ MonitorCollectLate(p)
        \/ p \in DOMAIN mo_procs /\ MonitorExit(p)

SpecMonitor == InitMonitor /\ [][NextMonitor]_vars

\* role blocks are entered, nested and left around additions to the model
InitRole == RoleInit /\ EngineParked /\ JoinParked /\ JsonParked /\ RefParked /\ AllOfParked /\ IntegerParked /\ RegexParked /\ SelfCallParked /\ ModelParked /\ StreamParked /\ RunParked /\ BlocksParked /\ SamplingParked /\ AnthropicParked /\ ToolsParked /\ SchemaParked /\ MessageParked /\ MonitorParked

NextRole == RoleEnter \/ RoleRejected \/ RoleContent \/ RoleBodyRaises \/ RoleExit \/ RoleCatch

SpecRole == InitRole /\ [][NextRole]_vars

-----------------------------------------------------------------------------
(* Engine loop: properties *)

\* engine_output and gen_data belong to the same iteration of the loop
SameIteration == e_pc \in {"yield", "yielded", "advance", "end"}

\* C1: whenever advance returned gen_data and the parser is not accepting,
\* the token the engine hands to the next advance is one the mask of that
\* gen_data allows.
C1_HandedTokenInMask ==
    (SameIteration /\ e_gen # <<>> /\ e_out # <<>> /\ ~p_accepting)
        => e_gen[1].mask[e_out[1].token] # 0

\* C2: in the accepting state (parser accepting, tokenizer with an EOS id)
\* the oracle is queried with no mask; the token handed back is the issued
\* token when the mask of gen_data allows it, and EOS with probability 1.0
\* when it does not.
C2_AcceptingRelaxation ==
    (SameIteration /\ e_gen # <<>> /\ e_out # <<>> /\ p_accepting /\ tok_eos # <<>>)
        => /\ o_mask = <<>>
           /\ e_gen[1].mask[o_raw[1]] # 0 => e_out[1].token = o_raw[1]
           /\ e_gen[1].mask[o_raw[1]] = 0
                => (e_out[1].token = tok_eos[1] /\ e_out[1].prob = "1.0")

\* an issued token outside the mask was replaced by EOS
C2_Witness ==
    /\ SameIteration /\ e_gen # <<>> /\ e_out # <<>> /\ p_accepting /\ tok_eos # <<>>
    /\ e_gen[1].mask[o_raw[1]] = 0
    /\ o_raw[1] # tok_eos[1]
    /\ e_out[1].token = tok_eos[1]

\* an engine output that has been computed and not yet handed to advance
Pending == e_pc # "branch" /\ e_out # <<>>

\* C3: the first advance receives None; every later advance receives the
\* engine output computed from the gen_data of the advance just before it,
\* or None when that advance returned no gen_data; the oracle is queried
\* exactly for the advances that returned gen_data, with their token
\* prefix; so the parser's accepted tokens are the oracle's outputs in
\* order, none skipped, repeated or reordered.
C3_TokensInOracleOrder ==
    /\ (n_adv = 0 => e_out = <<>>)
    /\ (SameIteration /\ n_adv > 0 => ((e_gen = <<>>) <=> (e_out = <<>>)))
    /\ (Pending => e_out[1].token = o_log[Len(o_log)])
    /\ p_prompt \o o_log = (IF Pending THEN Accept(p_tokens, e_out) ELSE p_tokens)
    /\ n_oracle = (IF e_pc = "branch" /\ e_gen # <<>> THEN n_gen - 1 ELSE n_gen)
    /\ (SameIteration /\ e_gen # <<>> => o_query = e_gen[1].tokens /\ o_query = p_tokens)

\* two oracle outputs, different tokens, have reached the parser in order
C3_Witness ==
    /\ Len(o_log) = 2
    /\ o_log[1] # o_log[2]
    /\ p_tokens = p_prompt \o o_log
    /\ n_adv = 3

\* C4: done() is evaluated before every advance and advance is called only
\* when it returned false, never on a parser that is done; each advance is
\* followed by exactly one yield; the generator ends when done() is true.
C4_DoneCheckedBeforeAdvance ==
    /\ ~p_afterDone
    /\ (e_pc = "advance" => ~p_done /\ n_check = n_adv + 1)
    /\ (e_pc = "end" => p_done /\ n_check = n_adv + 1)
    /\ (e_pc \in {"branch", "yield", "yielded"} => n_check = n_adv)
    /\ (e_pc \in {"created", "advance", "yielded", "end"} => n_yield = n_adv)
    /\ (e_pc \in {"branch", "yield"} => n_adv = n_yield + 1)

\* the generator has ended after two advances, each followed by its yield
C4_Witness == e_pc = "end" /\ n_adv = 2 /\ n_yield = 2 /\ n_check = 3


-----------------------------------------------------------------------------
(* GenJson._join: properties *)

\* the elements at the indices in S, in order, from index i on
RECURSIVE Keep(_, _, _)
Keep(elements, S, i) ==
    IF i > Len(elements) THEN <<>>
    ELSE (IF i \in S THEN <<elements[i]>> ELSE <<>>) \o Keep(elements, S, i + 1)

\* the texts of the grammars in order, one separator between consecutive ones
RECURSIVE Separated(_, _)
Separated(grammars, sep) ==
    IF grammars = <<>> THEN {<<>>}
    ELSE IF Len(grammars) = 1 THEN Head(grammars)
    ELSE Cat(Cat(Head(grammars), Str(sep)), Separated(Tail(grammars), sep))

\* every choice of elements that keeps their order and contains the
\* required ones, written with one separator between consecutive elements
ChosenAndSeparated(elements, required, sep) ==
    UNION {Separated(Keep(elements, S, 1), sep) :
             S \in {T \in SUBSET DOMAIN elements : \A i \in DOMAIN elements : required[i] => i \in T}}

\* C5: _join(elements, required, prefixed=False) accepts exactly the texts
\* got by choosing a subsequence of the elements that contains every
\* required one and writing it with one item separator between consecutive
\* elements, none leading or trailing.
C5_JoinIsSeparatedSubsequences ==
    (jn_out # <<>> /\ ~jn_call.prefixed)
        => jn_out[1] = ChosenAndSeparated([i \in 1..jn_call.n |-> Element(i)],
                                          jn_call.required, jn_call.sep)

\* optional, required, optional: the required element alone and all three
\* are accepted
C5_Witness ==
    /\ jn_out # <<>> /\ ~jn_call.prefixed
    /\ jn_call.required = <<FALSE, TRUE, FALSE>>
    /\ jn_call.sep = ", "
    /\ <<"e2">> \in jn_out[1]
    /\ <<"e1", ", ", "e2", ", ", "e3">> \in jn_out[1]
    /\ <<"e2", ", ", "e3">> \in jn_out[1]

-----------------------------------------------------------------------------
(* GenJson.object, GenJson.array, json(): properties *)

\* the separators a call of json() ends up with
CallSeparators == GenJsonSeparators(JsonArguments(gj_call.separators, gj_call.whitespace_flexible).separators)

ObjectBuilt == gj_out # <<>> /\ gj_call.schema.type = "object" /\ gj_out[1].error = ""

ArrayBuilt == gj_out # <<>> /\ gj_call.schema.type = "array" /\ gj_out[1].error = ""

\* json.loads of a key text: the name it spells
KeyName(text) ==
    CASE text = "\"a\""       -> "a"
      [] text = "\"b\""       -> "b"
      [] text = "\"c\""       -> "c"
      [] text = "\"\\u0061\"" -> "a"

\* the members of an object text '{' k1 ks v1 is k2 ks v2 ... '}'
MemberCount(w) == (Len(w) - 1) \div 4

MemberKey(w, i) == KeyName(w[4 * i - 2])

\* the declared keys in the order of the claim: properties in declaration
\* order, then the required keys that are not properties
DeclaredKeys(schema) ==
    LET props == [i \in DOMAIN schema.properties |-> schema.properties[i].name]
    IN  props \o SelectSeq(schema.required, LAMBDA r : r \notin Range(props))

KeyPosition(declared, name) == CHOOSE i \in DOMAIN declared : declared[i] = name

\* C6: every text accepted by the grammar of GenJson.object lists the keys
\* of properties in declaration order, then the required keys that are not
\* properties (values from additionalProperties), then the additional pairs;
\* every required key is present, every declared or required key appears at
\* most once, and additional pairs appear only when additionalProperties is
\* not false.
C6_ObjectMembersInOrder ==
    ObjectBuilt =>
        LET schema   == gj_call.schema
            declared == DeclaredKeys(schema)
        IN  \A w \in gj_out[1].grammar :
              LET n == MemberCount(w)
              IN  /\ \A i, j \in 1..n :
                       i < j =>
                         /\ (MemberKey(w, i) \in Range(declared) /\ MemberKey(w, j) \in Range(declared))
                              => KeyPosition(declared, MemberKey(w, i)) < KeyPosition(declared, MemberKey(w, j))
                         /\ MemberKey(w, i) \notin Range(declared)
                              => MemberKey(w, j) \notin Range(declared)
                  /\ \A r \in Range(schema.required) : \E i \in 1..n : MemberKey(w, i) = r
                  /\ schema.additionalProperties = "false"
                       => \A i \in 1..n : MemberKey(w, i) \in Range(declared)

\* the array texts of the claim: '[' n items joined by the separator ']'
ExpectedArray(schema, sep) ==
    LET item(i) == IF i <= Len(schema.prefixItems)
                   THEN JsonLeaf(schema.prefixItems[i])
                   ELSE JsonLeaf(schema.items)
        counts  == {n \in 0..MaxWord :
                      /\ n >= schema.minItems
                      /\ schema.maxItems # <<>> => n <= schema.maxItems[1]
                      /\ schema.items = "false" => n <= Len(schema.prefixItems)}
    IN  UNION {Cat(Cat(Str("["), Separated([i \in 1..n |-> item(i)], sep)), Str("]")) :
                 n \in counts}

\* C7: for every array schema that compiles, the GenJson.array grammar
\* accepts exactly '[' n items joined by the item separator ']' with
\* n >= minItems, n <= maxItems when given, n <= len(prefixItems) when items
\* is false, item i matching prefixItems[i] and later items the items schema.
C7_ArrayIsBoundedItemList ==
    ArrayBuilt => gj_out[1].grammar = ExpectedArray(gj_call.schema, CallSeparators.item)

\* two prefixItems, items boolean, minItems 1, no maxItems: one, two and
\* four items are accepted, and '[]' is not
C7_Witness ==
    /\ ArrayBuilt
    /\ gj_call.schema.prefixItems = <<"integer", "string">>
    /\ gj_call.schema.items = "boolean"
    /\ gj_call.schema.minItems = 1
    /\ gj_call.schema.maxItems = <<>>
    /\ gj_call.separators = <<CompactSeparators>>
    /\ <<"[", "1", "]">> \in gj_out[1].grammar
    /\ <<"[", "1", ",", "\"x\"", "]">> \in gj_out[1].grammar
    /\ <<"[", "1", ",", "\"x\"", ",", "true", ",", "false", "]">> \in gj_out[1].grammar
    /\ <<"[", "]">> \notin gj_out[1].grammar

\* the schema with integer property a (required), string property b and
\* additionalProperties false
OptionalObjectSchema ==
    [type |-> "object",
     properties |-> <<[name |-> "a", schema |-> "integer"], [name |-> "b", schema |-> "string"]>>,
     required |-> <<"a">>, additionalProperties |-> "false",
     prefixItems |-> <<>>, items |-> "false", minItems |-> 0, maxItems |-> <<>>]

\* json() of that schema with whitespace_flexible off and no separators
StrictDefaultCall ==
    /\ gj_out # <<>>
    /\ gj_call.schema = OptionalObjectSchema
    /\ ~gj_call.whitespace_flexible
    /\ gj_call.separators = <<>>

AcceptedTexts == {Flat(w) : w \in gj_out[1].grammar}

-----------------------------------------------------------------------------
(* GenJson.ref and the $ref paths: properties *)

\* the closure of u is running further down the stack
Running(u) == \E i \in 1..(Len(rf_stack) - 1) : rf_stack[i] = Frame("closure", u)

\* compilations of u that raised
Aborted(u) == Cardinality({i \in DOMAIN rf_refs : rf_refs[i].uri = u /\ rf_refs[i].aborted})

\* C9: within one GenJson, after any sequence of ref() calls each URI has at
\* most one thunk in _defs and its referent is compiled at most once (one
\* compilation running or completed, not counting those that raised); a ref
\* to a URI whose referent is being compiled returns the DeferredReference
\* installed for it, and once a compilation completes its DeferredReference
\* has the referent's grammar as value.
C9_OneThunkCompiledOnce ==
    rf_mode # "none" =>
      /\ \A u \in Uris :
           /\ rf_thunks[u] <= 1
           /\ (u \in rf_defs) = (rf_thunks[u] = 1)
           /\ rf_compiled[u] <= 1
           /\ rf_started[u] - Aborted(u) <= 1
      /\ (rf_mode = "return" /\ Top.op = "closure" /\ Running(Top.uri))
           => /\ rf_ret.kind = "deferred"
              /\ rf_ret.of = rf_slot[Top.uri]
              /\ rf_ret.of \in DOMAIN rf_refs
              /\ rf_refs[rf_ret.of].uri = Top.uri
      /\ \A i \in DOMAIN rf_refs :
           IF rf_slot[rf_refs[i].uri] = i
           THEN rf_refs[i].value = 0
           ELSE rf_refs[i].aborted \/ rf_refs[i].value = rf_refs[i].uri

\* two ref() calls have returned; a DeferredReference that was handed out
\* while its referent was compiled has the grammar as value, and the
\* referent was compiled once
C9_Witness ==
    /\ rf_mode = "idle" /\ rf_calls = 2 /\ rf_result = "grammar"
    /\ Len(rf_refs) >= 2
    /\ \E i \in DOMAIN rf_refs :
         /\ rf_refs[i].handed
         /\ rf_refs[i].value = rf_refs[i].uri
         /\ rf_compiled[rf_refs[i].uri] = 1
         /\ rf_started[rf_refs[i].uri] = 1
         /\ \E j \in DOMAIN rf_refs : j # i /\ rf_refs[j].uri = rf_refs[i].uri

\* C10: compilation terminates for every schema with finitely many
\* definitions, however its $ref edges form cycles, also when the $ref that
\* closes a cycle is inside an allOf list or next to sibling keywords: no
\* call ends in RecursionError.
C10_CompilationTerminates == rf_result # "RecursionError"

-----------------------------------------------------------------------------
(* GenJson.allOf: properties *)

\* the type set a subschema stands for
TypeSetOf(schema) ==
    IF schema.type = <<>> THEN JSONType
    ELSE IF "number" \in schema.type[1] THEN schema.type[1] \cup {"integer"}
    ELSE schema.type[1]

TypeIntersection(schemas) ==
    {t \in JSONType : \A i \in DOMAIN schemas : t \in TypeSetOf(schemas[i])}

RequiredUnion(schemas) == UNION {schemas[i].required : i \in DOMAIN schemas}

\* two subschemas give different const values
ConstsDiffer(schemas) ==
    \E i, j \in DOMAIN schemas :
        /\ schemas[i].const # <<>> /\ schemas[j].const # <<>>
        /\ schemas[i].const[1] # schemas[j].const[1]

MergeErrors ==
    {"ValueError: allOf with conflicting types",
     "ValueError: allOf with multiple conflicting const values"}

\* C11: for allOf over any list of subschemas the merged type set is the
\* intersection of the subschemas' type sets (number counting as number and
\* integer) and the merged required set is the union of theirs; compilation
\* raises when the intersection is empty or two subschemas give different
\* const values, and otherwise raises no type or const conflict.
C11_AllOfMergesTypeRequiredConst ==
    ao_out # <<>> =>
        /\ ao_out[1].error = ""
             => /\ ao_out[1].type = TypeIntersection(ao_call)
                /\ ao_out[1].required = RequiredUnion(ao_call)
        /\ (TypeIntersection(ao_call) = {} \/ ConstsDiffer(ao_call)) => ao_out[1].error # ""
        /\ ~(TypeIntersection(ao_call) = {} \/ ConstsDiffer(ao_call))
             => ao_out[1].error \notin MergeErrors

-----------------------------------------------------------------------------
(* GenJson.integer: properties *)

\* the integers looked at
IntegerWindow == -4..(ExactLimit + 4)

\* n is in the closed range [lo, hi], an absent side being open
InRange(n, range) ==
    /\ range.lo # <<>> => n >= range.lo[1]
    /\ range.hi # <<>> => n <= range.hi[1]

\* n satisfies every bound that is given
SatisfiesBounds(n, call) ==
    /\ call.minimum # <<>> => 2 * n >= call.minimum[1].k
    /\ call.maximum # <<>> => 2 * n <= call.maximum[1].k
    /\ call.exclusiveMinimum # <<>> => 2 * n > call.exclusiveMinimum[1].k
    /\ call.exclusiveMaximum # <<>> => 2 * n < call.exclusiveMaximum[1].k

\* C12: for type integer with any combination of minimum, maximum,
\* exclusiveMinimum and exclusiveMaximum, the closed range handed to
\* rx_int_range contains exactly the integers that satisfy every given
\* bound; an absent bound leaves its side open.
C12_IntegerRangeIsExact ==
    ir_out # <<>> =>
        \A n \in IntegerWindow : InRange(n, ir_out[1]) <=> SatisfiesBounds(n, ir_call)

-----------------------------------------------------------------------------
(* regex: properties *)

\* re.fullmatch semantics of the parsed pattern, on strings of code points

\* the decimal digits (category Nd) among the characters used
UnicodeDigits == (48..57) \cup (1632..1641)

WordCharacters == UnicodeDigits \cup (65..90) \cup (97..122) \cup {95, 233}

SpaceCharacters == {32, 9, 10, 13, 12, 11}

InCategory(name, c) ==
    CASE name = "CATEGORY_DIGIT" -> c \in UnicodeDigits
      [] name = "CATEGORY_NOT_DIGIT" -> c \notin UnicodeDigits
      [] name = "CATEGORY_WORD" -> c \in WordCharacters
      [] name = "CATEGORY_NOT_WORD" -> c \notin WordCharacters
      [] name = "CATEGORY_SPACE" -> c \in SpaceCharacters
      [] name = "CATEGORY_NOT_SPACE" -> c \notin SpaceCharacters

\* the character is a member of the class item
CharIn(item, c) ==
    CASE item.op = "LITERAL" -> c = item.a
      [] item.op = "RANGE" -> item.a <= c /\ c <= item.b
      [] item.op = "CATEGORY" -> InCategory(item.arg, c)
      [] OTHER -> FALSE

RECURSIVE Matches(_, _)
RECURSIVE MatchesSeq(_, _)
RECURSIVE MatchesCopies(_, _, _)

\* the string is the concatenation of matches of the items
MatchesSeq(items, s) ==
    IF items = <<>> THEN s = <<>>
    ELSE \E n \in 0..Len(s) :
            /\ Matches(Head(items), SubSeq(s, 1, n))
            /\ MatchesSeq(Tail(items), SubSeq(s, n + 1, Len(s)))

\* the string is k matches of the tree
MatchesCopies(tree, k, s) ==
    IF k = 0 THEN s = <<>>
    ELSE \E n \in 0..Len(s) :
            /\ Matches(tree, SubSeq(s, 1, n))
            /\ MatchesCopies(tree, k - 1, SubSeq(s, n + 1, Len(s)))

\* the pattern fully matches the string
Matches(tree, s) ==
    CASE tree.op = "SubPattern" -> MatchesSeq(tree.kids, s)
      [] tree.op = "SUBPATTERN" -> Matches(tree.kids[1], s)
      [] tree.op = "LITERAL" -> s = <<tree.a>>
      [] tree.op = "NOT_LITERAL" -> Len(s) = 1 /\ s[1] # tree.a
      [] tree.op = "ANY" -> Len(s) = 1 /\ s[1] # 10
      [] tree.op = "CATEGORY" -> Len(s) = 1 /\ InCategory(tree.arg, s[1])
      [] tree.op = "IN" ->
            /\ Len(s) = 1
            /\ IF tree.kids[1].op = "NEGATE"
               THEN \A i \in 2..Len(tree.kids) : ~CharIn(tree.kids[i], s[1])
               ELSE \E i \in 1..Len(tree.kids) : CharIn(tree.kids[i], s[1])
      [] tree.op = "BRANCH" -> \E i \in 1..Len(tree.kids) : Matches(tree.kids[i], s)
      [] tree.op = "MAX_REPEAT" ->
            \E k \in tree.a..Max({tree.a, Min({tree.b, Len(s)})}) :
                MatchesCopies(tree.kids[1], k, s)
      [] OTHER -> FALSE

\* the characters of the strings tried
Characters == {ord[c] : c \in {"a", "b", "c", "newline", "e_acute", "arabic_three"}}

Strings == UNION {[1..n -> Characters] : n \in 0..MaxChars}

\* the grammar of the pattern accepts the string: the parser consumes its
\* UTF-8 bytes and ends accepting
GrammarAccepts(s) ==
    /\ rx_grammar[1].op # "Raise"
    /\ matched(rx_grammar[1], Encode(s))

\* C13: for every regex built from literals, character classes,
\* concatenation, alternation, capture groups and the quantifiers ?, *, +,
\* {m}, {m,n}, {m,}, and every string over a bounded alphabet and length, the
\* compiled grammar accepts the string iff the regex fully matches it.
C13_GrammarAcceptsWhatRegexMatches ==
    (rx_grammar # <<>> /\ rx_consumed = <<>> /\ ~rx_failed) =>
        \A s \in Strings : GrammarAccepts(s) <=> Matches(rx_tree, s)

\* the pattern is one bounded repetition x{m,n} of a literal, a group of
\* literals or a class of literals (a copy's bytes are its characters)
BoundedRepetition ==
    /\ rx_tree \in QuantifierPatterns
    /\ Len(rx_tree.kids) = 1
    /\ rx_tree.kids[1].op = "MAX_REPEAT"
    /\ rx_tree.kids[1].b # MAXREPEAT

\* the operand x, and the counts m and n
Repeated == rx_tree.kids[1].kids[1]

\* the bytes consumed are k whole copies of the operand
CopiesConsumed(k) == MatchesCopies(Repeated, k, rx_consumed)

\* the bytes a copy of the operand can start with
CopyStart == {s[1] : s \in {t \in Strings : t # <<>> /\ \E n \in 1..Len(t) : Matches(Repeated, SubSeq(t, 1, n))}}

\* C14: for a bounded repetition x{m,n} the grammar accepts exactly k copies
\* of x for m <= k <= n; after fewer than m copies the parser is not
\* accepting and another copy is the only continuation; after n copies no
\* further copy is allowed.
C14_BoundedRepetitionCounts ==
    (BoundedRepetition /\ rx_frontier # <<>>) =>
        LET low == rx_tree.kids[1].a
            high == rx_tree.kids[1].b
            accepting == Nullable(rx_frontier[1])
        IN  /\ accepting <=> \E k \in low..high : CopiesConsumed(k)
            /\ \A k \in 0..(low - 1) :
                    CopiesConsumed(k) => ~accepting /\ valid_next_bytes(rx_frontier[1]) = CopyStart
            /\ CopiesConsumed(high) => valid_next_bytes(rx_frontier[1]) = {}

\* the parser has consumed n copies of x{m,n}, m < n, and accepts
C14_Witness ==
    /\ BoundedRepetition
    /\ rx_frontier # <<>>
    /\ rx_tree.kids[1].a < rx_tree.kids[1].b
    /\ CopiesConsumed(rx_tree.kids[1].b)
    /\ Len(rx_consumed) > 2
    /\ Nullable(rx_frontier[1])

\* the language of a grammar, by its structure

RECURSIVE Accepts(_, _)
RECURSIVE AcceptsJoin(_, _)

\* the bytes are the concatenation of strings of the values
AcceptsJoin(values, bytes) ==
    IF values = <<>> THEN bytes = <<>>
    ELSE \E n \in 0..Len(bytes) :
            /\ Accepts(Head(values), SubSeq(bytes, 1, n))
            /\ AcceptsJoin(Tail(values), SubSeq(bytes, n + 1, Len(bytes)))

\* the bytes are a string of the grammar
Accepts(g, bytes) ==
    CASE g.op \in {"Byte", "ByteRange"} -> Len(bytes) = 1 /\ g.a <= bytes[1] /\ bytes[1] <= g.b
      [] g.op = "Join" -> AcceptsJoin(g.kids, bytes)
      [] g.op = "Select" -> \E i \in 1..Len(g.kids) : Accepts(g.kids[i], bytes)
      [] g.op = "ZeroOrMore" ->
            \/ bytes = <<>>
            \/ \E n \in 1..Len(bytes) :
                /\ Accepts(g.kids[1], SubSeq(bytes, 1, n))
                /\ Accepts(g, SubSeq(bytes, n + 1, Len(bytes)))
      [] g.op = "Null" -> bytes = <<>>
      [] OTHER -> FALSE

RECURSIVE PrefixOf(_, _)
RECURSIVE PrefixOfJoin(_, _)

\* the bytes start a concatenation of strings of the values
PrefixOfJoin(values, bytes) ==
    IF values = <<>> THEN bytes = <<>>
    ELSE \/ PrefixOf(Head(values), bytes) /\ ~IsEmpty(Join(Tail(values)))
         \/ \E n \in 0..Len(bytes) :
                /\ Accepts(Head(values), SubSeq(bytes, 1, n))
                /\ PrefixOfJoin(Tail(values), SubSeq(bytes, n + 1, Len(bytes)))

\* the bytes are a prefix of some string of the grammar
PrefixOf(g, bytes) ==
    IF bytes = <<>> THEN ~IsEmpty(g)
    ELSE CASE g.op \in {"Byte", "ByteRange"} -> Accepts(g, bytes)
           [] g.op = "Join" -> PrefixOfJoin(g.kids, bytes)
           [] g.op = "Select" -> \E i \in 1..Len(g.kids) : PrefixOf(g.kids[i], bytes)
           [] g.op = "ZeroOrMore" ->
                \/ PrefixOf(g.kids[1], bytes)
                \/ \E n \in 1..(Len(bytes) - 1) :
                    /\ Accepts(g.kids[1], SubSeq(bytes, 1, n))
                    /\ PrefixOf(g, SubSeq(bytes, n + 1, Len(bytes)))
           [] OTHER -> FALSE

\* the pattern is built of ASCII literals, ranges and classes of them,
\* concatenation, alternation, groups and quantifiers: its strings are
\* their own bytes
RECURSIVE LiteralPattern(_)
LiteralPattern(tree) ==
    CASE tree.op = "LITERAL" -> tree.a < 128
      [] tree.op = "RANGE" -> tree.b < 128
      [] tree.op \in {"SubPattern", "SUBPATTERN", "BRANCH", "MAX_REPEAT", "IN"} ->
            \A i \in 1..Len(tree.kids) : LiteralPattern(tree.kids[i])
      [] OTHER -> FALSE

RECURSIVE PrefixMatches(_, _)
RECURSIVE PrefixMatchesSeq(_, _)

\* the string starts a concatenation of matches of the items
PrefixMatchesSeq(items, s) ==
    IF items = <<>> THEN s = <<>>
    ELSE \/ PrefixMatches(Head(items), s)
         \/ \E n \in 0..Len(s) :
                /\ Matches(Head(items), SubSeq(s, 1, n))
                /\ PrefixMatchesSeq(Tail(items), SubSeq(s, n + 1, Len(s)))

\* the string is a prefix of some string a literal pattern fully matches
PrefixMatches(tree, s) ==
    IF s = <<>> THEN TRUE
    ELSE CASE tree.op = "SubPattern" -> PrefixMatchesSeq(tree.kids, s)
           [] tree.op = "SUBPATTERN" -> PrefixMatches(tree.kids[1], s)
           [] tree.op = "BRANCH" -> \E i \in 1..Len(tree.kids) : PrefixMatches(tree.kids[i], s)
           [] tree.op = "MAX_REPEAT" ->
                \E k \in 0..Min({tree.b - 1, Len(s)}) : \E n \in 0..Len(s) :
                    /\ MatchesCopies(tree.kids[1], k, SubSeq(s, 1, n))
                    /\ PrefixMatches(tree.kids[1], SubSeq(s, n + 1, Len(s)))
           [] OTHER -> Matches(tree, s)

\* the first and last byte of every terminal of the grammar and the bytes
\* next to them
RECURSIVE TerminalBounds(_)
TerminalBounds(g) ==
    IF g.op \in {"Byte", "ByteRange"} THEN {g.a - 1, g.a, g.b, g.b + 1}
    ELSE UNION {TerminalBounds(g.kids[i]) : i \in 1..Len(g.kids)}

\* one byte of every class of bytes that no terminal of the grammar tells
\* apart: a byte that is not listed lies, for every terminal, on the same
\* side of its bounds as the next listed byte above it
Representatives(g) == ({0, 255} \cup TerminalBounds(g)) \cap Bytes

\* the parser allows the byte next
Allowed(byte) == ~IsEmpty(Consume(rx_frontier[1], byte))

\* C15: after the parser has consumed any prefix of an accepted string, the
\* bytes allowed next are exactly the bytes b such that prefix + b is a
\* prefix of some accepted string (for a pattern of literals: of some string
\* the regex matches); any other byte is a match failure.
C15_AllowedBytesAreViableContinuations ==
    (rx_frontier # <<>> /\ rx_grammar[1].op # "Raise") =>
        /\ \A byte \in Representatives(rx_grammar[1]) :
                Allowed(byte) <=> PrefixOf(rx_grammar[1], Append(rx_consumed, byte))
        /\ LiteralPattern(rx_tree) =>
                \A byte \in Representatives(rx_grammar[1]) :
                    Allowed(byte) <=> PrefixMatches(rx_tree, Append(rx_consumed, byte))
        /\ rx_failed => \E byte \in ProbeBytes : ~PrefixOf(rx_grammar[1], Append(rx_consumed, byte))

\* cat|dog after "ca": only "t" is allowed
CatOrDogAfterCa ==
    /\ rx_tree = SubPattern(<<Branch(<<SubPattern(Word(<<"c", "a", "t">>)),
                                       SubPattern(Word(<<"d", "o", "g">>))>>)>>)
    /\ rx_consumed = <<ord["c"], ord["a"]>>
    /\ valid_next_bytes(rx_frontier[1]) = {ord["t"]}

\* a parse has consumed bytes, with some bytes allowed next and others not
C15_Witness ==
    /\ rx_frontier # <<>>
    /\ CatOrDogAfterCa
    /\ rx_failed

\* the bytes the parser allows first
FirstBytes == valid_next_bytes(rx_grammar[1])

\* the pattern is the one item, and its grammar has been built
Compiled(item) ==
    /\ rx_tree = SubPattern(<<item>>)
    /\ rx_grammar # <<>>
    /\ rx_consumed = <<>>

\* the bytes that start the UTF-8 encoding of a decimal digit
UNICODE_DIGIT_START_BYTES == (48..57) \cup {217, 219, 223, 224, 225, 234, 239, 240}

\* C16: for the category \d the bytes allowed first are exactly the UTF-8
\* starting bytes of the Unicode decimal digits: ASCII 0-9 and 0xD9, 0xDB,
\* 0xDF, 0xE0, 0xE1, 0xEA, 0xEF, 0xF0.
C16_DigitStartBytes ==
    Compiled(Category("CATEGORY_DIGIT")) =>
        /\ rx_grammar[1].op # "Raise"
        /\ FirstBytes = UNICODE_DIGIT_START_BYTES

\* the bytes that can start a UTF-8 character
UNICODE_START_BYTES == (0..127) \cup (194..244)

\* the pattern is one negated class, or '.'
NegatedPattern ==
    /\ Len(rx_tree.kids) = 1
    /\ \/ rx_tree.kids[1].op \in {"ANY", "NOT_LITERAL"}
       \/ rx_tree.kids[1].op = "IN" /\ rx_tree.kids[1].kids[1].op = "NEGATE"

\* the bytes the class excludes: S
Excluded ==
    LET item == rx_tree.kids[1]
    IN  CASE item.op = "ANY" -> {ord["newline"]}
          [] item.op = "NOT_LITERAL" -> {item.a}
          [] item.op = "IN" ->
                {c \in 0..127 : \E i \in 2..Len(item.kids) : CharIn(item.kids[i], c)}

\* C17: for a negated class [^S] over bytes, ranges and nested classes, and
\* for '.' (S = {newline}), the bytes allowed first are exactly the valid
\* UTF-8 starting bytes (0x00-0x7F and 0xC2-0xF4) that are not in S.
C17_NegatedClassStartBytes ==
    (NegatedPattern /\ rx_grammar # <<>> /\ rx_grammar[1].op # "Raise" /\ rx_consumed = <<>>) =>
        FirstBytes = UNICODE_START_BYTES \ Excluded

\* [^\w\n], a negated class with a nested class, has been compiled
C17_Witness ==
    /\ Compiled(NegatedClass(<<Category("CATEGORY_WORD"), Lit("newline")>>))
    /\ rx_grammar[1].op = "Select"
    /\ ord["b"] \notin FirstBytes
    /\ 195 \in FirstBytes

-----------------------------------------------------------------------------
(* Self-referential calls: properties *)

\* a call without arguments that finished while a call without arguments
\* of the same thread was running its body
LastReturns == {sc_last[t] : t \in Threads}

NestedReturns == {r \in LastReturns : r.no_args /\ r.enclosing # 0}

\* a call without arguments that is running its body inside another one
BodyRunsAgain ==
    \E t \in Threads : \E i, j \in 1..Len(sc_stack[t]) :
        /\ i < j
        /\ sc_stack[t][i].no_args /\ sc_stack[t][i].pc = "body"
        /\ sc_stack[t][j].no_args /\ sc_stack[t][j].pc = "body"

\* C18: while a call without arguments of a stateless guidance function is
\* in progress on a thread, every nested call without arguments of the same
\* function on that thread returns, without running the body again, the one
\* DeferredReference installed by the outermost call; when the outermost
\* call returns normally, the value of that DeferredReference is the node
\* returned and it has been assigned exactly once.
C18_NestedCallsReturnTheReference ==
    /\ ~BodyRunsAgain
    /\ \A r \in NestedReturns : r.kind = "reference" /\ r.id = r.enclosing /\ ~r.ran_body
    /\ \A r \in LastReturns :
            (r.no_args /\ r.enclosing = 0 /\ r.kind = "node") =>
                r.value = <<r.id>> /\ r.assigned = 1

\* no call has returned, and no slot of a thread holds, a DeferredReference
\* that another thread installed
OwnReferencesOnly ==
    /\ \A t \in Threads :
            sc_last[t].kind = "reference" => sc_refs[sc_last[t].id].installer = t
    /\ \A w \in WrapperIds : \A t \in Threads :
            sc_slot[w][t] # <<>> => sc_refs[sc_slot[w][t][1]].installer = t

\* a call made from outside the body, when it returned, had run the body
OutermostRanBody ==
    \A t \in Threads :
        (sc_last[t].depth = 1 /\ sc_last[t].kind # "none") => sc_last[t].ran_body

\* the slots of a thread change only in a step of that thread
SlotChangesByOwner ==
    \A t \in Threads :
        (sc_stack'[t] = sc_stack[t]) =>
            \A w \in WrapperIds : sc_slot'[w][t] = sc_slot[w][t]

\* C19: when two threads call the same stateless guidance function without
\* arguments at overlapping times, neither call returns the
\* DeferredReference installed by the other, each thread's outermost call
\* runs the body, and the slot one thread sees is never set or cleared by
\* the other.
C19_ThreadsDoNotShareTheReference ==
    [](OwnReferencesOnly /\ OutermostRanBody) /\ [][SlotChangesByOwner]_vars

\* both threads are running the body of a call without arguments, each
\* with a reference of its own installed
C19_Witness ==
    /\ \A t \in Threads :
            /\ sc_stack[t] # <<>>
            /\ sc_stack[t][1].pc = "body"
            /\ sc_stack[t][1].no_args
            /\ sc_stack[t][1].wrapper = sc_stack[1][1].wrapper
            /\ sc_slot[sc_stack[t][1].wrapper][t] = <<sc_stack[t][1].ref>>
    /\ sc_stack[1][1].ref # sc_stack[2][1].ref

-----------------------------------------------------------------------------
(* Model objects: properties *)

\* C20: for every model m and value v, evaluating m + v, m.set(k, x) or
\* m.remove(k) returns a model object and leaves m unchanged: its state
\* text, token_count, opened_blocks, variables (with the contents of the
\* list-valued variables filled by list-append captures) and variable
\* log-probs are the same after as before.
C20_OperationsLeaveModelUnchanged ==
    md_last.op # "none" =>
        /\ md_last.result \in 1..Len(md_models)
        /\ Observed(md_models[md_last.m], md_lists) = md_last.before

-----------------------------------------------------------------------------
(* ModelStream: properties *)

\* C21: if the grammar or function run by the worker thread raises, the
\* iteration of the ModelStream raises that exception in the consuming
\* thread: it never ends normally.
C21_StreamPropagatesErrors ==
    st_raises => st_consumer \notin {"join", "done"}

\* the events put so far, in the order they were put
EventsPut == [i \in 1..st_put |-> i]

\* C22: every model event the worker put on the queue before it finished
\* is yielded by __iter__, in the order it was put: what is yielded is
\* always a prefix of what was put, and all of it once the iteration is over.
C22_StreamYieldsEveryEvent ==
    /\ Len(st_yielded) <= st_put
    /\ st_yielded = SubSeq(EventsPut, 1, Len(st_yielded))
    /\ st_consumer \in {"join", "done", "raised"} => st_yielded = EventsPut

-----------------------------------------------------------------------------
(* Model._run_stateless: properties *)

\* C23: the token_count of m + grammar is m.token_count plus the sum of
\* new_token_count over all the chunks the engine yields, the chunks whose
\* bytes are withheld included, and adding a plain string leaves
\* token_count unchanged.
C23_TokenCountIsSumOfChunks ==
    rs_pc # "parked" => rs_token_count = rs_count0 + rs_sum

\* a run has returned after chunks that count tokens, the last of them withheld
C23_Witness ==
    /\ rs_pc = "idle"
    /\ rs_delayed # <<>>
    /\ rs_sum >= 2
    /\ rs_token_count = rs_count0 + 2

\* the text appended since the operation began
AppendedText == SubSeq(rs_state, Len(rs_text0) + 1, Len(rs_state))

\* C27: the text _run_stateless appends to the state is the UTF-8 decoding
\* of the concatenation of new_bytes over the chunks, in chunk order, also
\* when a two-byte character is split across two chunks: whenever the bytes
\* sent so far decode, the run has not raised and the text appended is
\* their decoding.
C27_AppendedTextIsDecodedBytes ==
    (rs_pc \in {"running", "idle", "raised"} /\ Decodable(rs_bytes)) =>
        /\ rs_pc # "raised"
        /\ AppendedText = Decode(rs_bytes) \/ rs_bytes = <<>>

\* the capture groups of the last chunk are in the variables and the log-probs
Stored(capture) ==
    /\ capture.mode = "assign" =>
        /\ rs_variables[capture.name] = Single(capture.items[1])
        /\ rs_log_probs[capture.name] = Single(capture.items[1])
    /\ capture.mode = "append" =>
        LET value == rs_variables[capture.name]
            n == Len(capture.items)
        IN  /\ value.kind = "list"
            /\ Len(value.items) >= n
            /\ SubSeq(value.items, Len(value.items) - n + 1, Len(value.items)) = capture.items

\* a list that list-append captures have appended to
FilledByCaptures(value) ==
    value.kind = "list" /\ \E i \in 1..Len(value.items) : value.items[i] # UserValue

\* the log-probs of a variable are parallel to it: a list of the same
\* length, element i the log-prob of element i
Parallel(k) ==
    /\ rs_log_probs[k].kind = "list"
    /\ Len(rs_log_probs[k].items) = Len(rs_variables[k].items)
    /\ \A i \in 1..Len(rs_variables[k].items) :
        rs_variables[k].items[i] # UserValue => rs_log_probs[k].items[i] = rs_variables[k].items[i]

CapturesStored ==
    (rs_pc \in {"running", "idle"} /\ rs_chunk # NoChunk) => Stored(rs_chunk[1])

LogProbsParallel ==
    rs_pc \in {"running", "idle"} =>
        \A k \in CaptureNames : FilledByCaptures(rs_variables[k]) => Parallel(k)

\* C28: after any sequence of Model.set calls and grammar additions, every
\* capture group delivered in a response chunk is stored, and for every
\* name whose variable is a list filled by list-append captures the
\* log-probability entry is a list of the same length whose element i
\* belongs to capture element i.
C28_CapturesAndLogProbsParallel == CapturesStored /\ LogProbsParallel

-----------------------------------------------------------------------------
(* GenJson.array: errors *)

\* the outcome of the checks and the loop for the array schema of the call
CallOutcome ==
    ArrayOutcome(gj_call.schema.prefixItems, gj_call.schema.items,
                 gj_call.schema.minItems, gj_call.schema.maxItems)

\* prefixItems has fewer entries than minItems and items is false, or
\* maxItems is given and less than minItems
UnsatisfiableOrBadBounds(schema) ==
    \/ Len(schema.prefixItems) < schema.minItems /\ schema.items = "false"
    \/ schema.maxItems # <<>> /\ schema.maxItems[1] < schema.minItems

-----------------------------------------------------------------------------
(* GenJson.object: the keys of additional pairs *)

\* the key of member i as the text spells it
MemberKeyText(w, i) == w[4 * (i - 1) + 2]

\* the members that are additional-property pairs: their key is taken from
\* additional_key_grammar, not written by json_dumps of a declared key
AdditionalMembers(w, declared) ==
    {i \in 1..MemberCount(w) : \A j \in DOMAIN declared : MemberKeyText(w, i) # json_dumps(declared[j])}

\* C25: in every object text the GenJson.object grammar accepts, no key of
\* an additional-property pair denotes the same key as a declared property
\* or a required key, whatever JSON string spelling the additional key
\* uses, \uXXXX escapes included.
C25_AdditionalKeysAreNew ==
    ObjectBuilt =>
        LET declared == DeclaredKeys(gj_call.schema)
        IN  \A w \in gj_out[1].grammar :
              \A i \in AdditionalMembers(w, declared) : KeyName(MemberKeyText(w, i)) \notin Range(declared)

\* the same for keys spelled without escapes
LiteralKeysAreNew ==
    ObjectBuilt =>
        LET declared == DeclaredKeys(gj_call.schema)
        IN  \A w \in gj_out[1].grammar :
              \A i \in AdditionalMembers(w, declared) :
                MemberKeyText(w, i) # "\"\\u0061\"" => KeyName(MemberKeyText(w, i)) \notin Range(declared)

-----------------------------------------------------------------------------
(* Model.__add__ and blocks: properties *)

\* what the last addition appended
AddedSince == SubSeq(bk_state, Len(bk_last.before) + 1, Len(bk_state))

\* the closers of the blocks, in order
Closers(blocks) == [i \in 1..Len(blocks) |-> Closer(blocks[i])]

\* the addition closed the blocks that were opened and no longer active:
\* no error, their closers first and once each, the most recently opened
\* first, the value last, and the opened blocks are the active ones
ClosedInOrder ==
    /\ bk_last.error = ""
    /\ Len(AddedSince) > Len(bk_last.exits)
    /\ SubSeq(AddedSince, 1, Len(bk_last.exits)) = Closers(bk_last.exits)
    /\ \A i \in (Len(bk_last.exits) + 1)..Len(AddedSince) : AddedSince[i] >= 0
    /\ AddedSince[Len(AddedSince)] = AddedValue
    /\ Range(bk_opened) = Range(bk_active)
    /\ Range(bk_opened) \cap Range(bk_last.exits) = {}

\* C26: when a model has k >= 1 opened blocks that are no longer in
\* Model.global_active_blocks, the next m + v completes without error and
\* appends each such block's closer exactly once, the most recently opened
\* first, before v is applied; afterwards the result's opened_blocks hold
\* none of those blocks and exactly the blocks of global_active_blocks.
C26_ExitedBlocksAreClosedInOrder ==
    (bk_last # <<>> /\ bk_last.error # "none" /\ Len(bk_last.exits) >= 1) => ClosedInOrder

\* the same for one block to close
OneBlockIsClosed ==
    (bk_last # <<>> /\ bk_last.error # "none" /\ Len(bk_last.exits) = 1) => ClosedInOrder

-----------------------------------------------------------------------------
(* GenJson._join and the right-recursive construction T *)

\* T_i(prefixed) in which an optional item reached with prefixed = true is
\* optional(separator, the item, T_{i+1}(true)): the items after it are
\* inside the optional
RECURSIVE NestedT(_, _, _, _)
NestedT(elements, required, prefixed, sep) ==
    IF elements = <<>> THEN NullGrammar
    ELSE LET e == Head(elements)
             next(pre) == NestedT(Tail(elements), Tail(required), pre, sep)
         IN  IF Head(required)
             THEN Cat(IF prefixed THEN Cat(Str(sep), e) ELSE e, next(TRUE))
             ELSE IF prefixed
                  THEN optional(Cat(Cat(Str(sep), e), next(TRUE)))
                  ELSE select({next(FALSE), Cat(e, next(TRUE))})

\* T_i(prefixed) in which an optional item reached with prefixed = true is
\* optional(separator, the item) followed by T_{i+1}(true): the items
\* after it are outside the optional
RECURSIVE FollowedT(_, _, _, _)
FollowedT(elements, required, prefixed, sep) ==
    IF elements = <<>> THEN NullGrammar
    ELSE LET e == Head(elements)
             next(pre) == FollowedT(Tail(elements), Tail(required), pre, sep)
         IN  IF Head(required)
             THEN Cat(IF prefixed THEN Cat(Str(sep), e) ELSE e, next(TRUE))
             ELSE IF prefixed
                  THEN Cat(optional(Cat(Str(sep), e)), next(TRUE))
                  ELSE select({next(FALSE), Cat(e, next(TRUE))})

JoinElements == [i \in 1..jn_call.n |-> Element(i)]

\* C29 as stated: for every elements/required sequence the grammar built by
\* _join accepts the language of T_1(false), where an optional item reached
\* with prefixed = true is optional(separator, the item, T_{i+1}(true)), so
\* that the items after it can appear only if it is present.
C29_JoinIsNestedConstruction ==
    (jn_out # <<>> /\ ~jn_call.prefixed)
        => jn_out[1] = NestedT(JoinElements, jn_call.required, FALSE, jn_call.sep)

\* C29 as the code has it: the grammar built by _join accepts the language
\* of T_1(false), where an optional item reached with prefixed = true is
\* optional(separator, the item) followed by T_{i+1}(true), so that the
\* items after it can appear whether or not it is present.
C29_JoinIsFollowedConstruction ==
    (jn_out # <<>> /\ ~jn_call.prefixed)
        => jn_out[1] = FollowedT(JoinElements, jn_call.required, FALSE, jn_call.sep)

\* required, optional, required: the third element follows the first when
\* the second is absent, which the nested construction does not accept,
\* and the nested construction accepts the first alone
C29_Witness ==
    /\ jn_out # <<>> /\ ~jn_call.prefixed
    /\ jn_call.required = <<TRUE, FALSE, TRUE>>
    /\ jn_call.sep = ", "
    /\ <<"e1", ", ", "e3">> \in jn_out[1]
    /\ <<"e1", ", ", "e3">> \notin NestedT(JoinElements, jn_call.required, FALSE, jn_call.sep)
    /\ <<"e1">> \in NestedT(JoinElements, jn_call.required, FALSE, jn_call.sep)
    /\ <<"e1">> \notin jn_out[1]

-----------------------------------------------------------------------------
(* The self-call slot after a call has ended: properties *)

\* the references installed by the calls in progress
ReferencesInProgress ==
    UNION {{sc_stack[t][i].ref : i \in 1..Len(sc_stack[t])} : t \in Threads} \ {0}

\* a slot holds a reference only while the call without arguments that
\* installed it is running its body on the thread
SlotSetOnlyInBody ==
    \A t \in Threads : \A w \in WrapperIds :
        sc_slot[w][t] # <<>> =>
            \E i \in 1..Len(sc_stack[t]) :
                /\ sc_stack[t][i].no_args /\ sc_stack[t][i].pc = "body"
                /\ sc_stack[t][i].wrapper = w
                /\ sc_stack[t][i].ref = sc_slot[w][t][1]

\* a call made from outside the body finds no reference in the slot
OutermostFindsSlotEmpty ==
    \A t \in Threads :
        (Len(sc_stack[t]) = 1 /\ TopFrame(t).pc = "wrapped") =>
            Reference(TopFrame(t).wrapper, t) = <<>>

\* a reference without a value whose call has ended (the call raised: a
\* call that returns assigns the value) keeps having none
AbandonedStaysUnassigned ==
    \A r \in DOMAIN sc_refs :
        (sc_refs[r].assigned = 0 /\ r \notin ReferencesInProgress) =>
            sc_refs'[r] = sc_refs[r]

\* C30: after an outermost call without arguments of a stateless guidance
\* function has ended, by returning or by raising, the thread-local
\* self-call slot of the function is empty, so that a later call without
\* arguments runs the body again; when the call raised, the
\* DeferredReference it installed never has its value assigned.
C30_SlotEmptyAfterCallEnds ==
    [](SlotSetOnlyInBody /\ OutermostFindsSlotEmpty) /\ [][AbandonedStaysUnassigned]_vars

\* a call without arguments raised and left its reference without a value,
\* and a later call without arguments from outside the body is running the
\* body with a new reference
C30_Witness ==
    \E t \in Threads : \E r \in DOMAIN sc_refs :
        /\ sc_refs[r].installer = t /\ sc_refs[r].assigned = 0 /\ sc_refs[r].value = <<>>
        /\ r \notin ReferencesInProgress
        /\ Len(sc_stack[t]) = 1
        /\ TopFrame(t).no_args /\ TopFrame(t).pc = "body" /\ TopFrame(t).ref > r
        /\ sc_slot[TopFrame(t).wrapper][t] = <<TopFrame(t).ref>>

-----------------------------------------------------------------------------
(* Calls with arguments: properties *)

\* C31: a call of a stateless guidance function that passes at least one
\* argument always invokes the wrapped function and never returns the
\* self-call DeferredReference, also when it is made while a call without
\* arguments of the same function is in progress on the same thread.
C31_CallsWithArgumentsRunTheBody ==
    \A t \in Threads :
        (sc_last[t].kind # "none" /\ ~sc_last[t].no_args) =>
            sc_last[t].kind = "node" /\ sc_last[t].ran_body

\* a call with arguments made while no call without arguments is in
\* progress on the thread ran the body
CallsWithArgumentsOutsideRunTheBody ==
    \A t \in Threads :
        (sc_last[t].kind # "none" /\ ~sc_last[t].no_args /\ sc_last[t].enclosing = 0) =>
            sc_last[t].kind = "node" /\ sc_last[t].ran_body

-----------------------------------------------------------------------------
(* Sampling with a mask: properties *)

\* the tokens the mask allows
AllowedByMask(mask) == {t \in DOMAIN mask : mask[t] # 0}

\* the allowed tokens with the highest logit
HighestAllowed(logits, mask) ==
    {t \in AllowedByMask(mask) : \A u \in AllowedByMask(mask) : logits[u] <= logits[t]}

\* C32: sample_with_temperature called with a mask never returns a token
\* whose mask byte is 0, and with a temperature below 0.0001 it returns the
\* token with the highest logit among the tokens the mask allows;
\* get_next_token therefore returns only allowed tokens.
C32_SampledTokenAllowed ==
    (sw_out # <<>> /\ sw_call.mask # <<>>) =>
        /\ sw_out[1] \in AllowedByMask(sw_call.mask[1])
        /\ Greedy(sw_call.temperature) =>
                sw_out[1] \in HighestAllowed(sw_call.logits, sw_call.mask[1])

\* all nonzero bytes of the mask are 255 and no logit is 255 or more above
\* another
BiasCoversLogits ==
    /\ sw_call.mask # <<>>
    /\ \A t \in Vocab : sw_call.mask[1][t] \in {0, 255}
    /\ \A t, u \in Vocab : sw_call.logits[t] - sw_call.logits[u] < 255

\* when the bias of the mask exceeds the spread of the logits, the token
\* returned at a temperature below 0.0001 is an allowed one with the
\* highest logit
GreedyWithinBias ==
    (sw_out # <<>> /\ BiasCoversLogits /\ Greedy(sw_call.temperature)) =>
        sw_out[1] \in HighestAllowed(sw_call.logits, sw_call.mask[1])

-----------------------------------------------------------------------------
(* Retries and the rate limit of the Anthropic session: properties *)

\* C33: for one uncached request, __call__ makes at most max_retries + 1
\* API attempts: it returns the result of the first attempt that succeeds
\* without making further attempts, and it raises after max_retries + 1
\* consecutive failed attempts.
C33_AtMostMaxRetriesPlusOneAttempts ==
    /\ an_attempts <= an_max_retries + 1
    /\ an_pc = "done" => an_attempts = an_fail_count + 1
    /\ an_pc = "raised" => an_attempts = an_max_retries + 1 /\ an_fail_count = an_attempts
    /\ an_pc = "call" => an_attempts = an_fail_count

\* a request has raised after max_retries + 1 >= 2 failed attempts
C33_Witness ==
    /\ an_pc = "raised"
    /\ an_max_retries >= 1
    /\ an_attempts = an_max_retries + 1

\* the calls recorded within the last 60 seconds
CallsInWindow ==
    Cardinality({i \in DOMAIN an_call_history : an_call_history[i] >= an_now - Window})

\* C34: at every moment the number of API calls recorded in call_history
\* within the last 60 seconds is at most max_calls_per_min: a call, also
\* each retry after a failure, is recorded and issued only when fewer than
\* max_calls_per_min calls lie in that window.
C34_CallsPerMinuteBounded == CallsInWindow <= an_max_calls_per_min

\* a request starts its calls with at most max_calls_per_min calls in the
\* window and adds at most max_retries + 1
CallsPerMinuteBoundedByRetries ==
    CallsInWindow <= an_max_calls_per_min + an_max_retries + 1

-----------------------------------------------------------------------------
(* gen with tools: properties *)

\* C35: the model carried from one loop iteration into the next holds no
\* tool{i} capture variable, so a tool is run in an iteration only when its
\* tool{i} capture was produced by the grammar in that same iteration, and
\* the loop ends with the suffix appended in the first iteration in which
\* no tool capture was produced.
C35_ToolsRunOnlyWhenCaptured ==
    /\ gt_pc = "loop" => \A i \in Tools : ~gt_lm.variables[i]
    /\ gt_ran \subseteq gt_captured
    /\ (gt_pc = "loop" /\ gt_lm.token_count > gt_call.initial_token_count) => gt_captured # {}
    /\ (gt_pc = "returned" /\ gt_captured = {}) => gt_lm.suffix

\* the tools run in an iteration are those whose variable lm holds after
\* the grammar: the tools captured in the iteration are run, and the loop
\* goes on exactly when a tool was run
ToolsRunAreThoseHeld ==
    /\ gt_captured \subseteq gt_ran \/ (gt_pc = "returned" /\ ~gt_lm.suffix /\ gt_ran = {})
    /\ gt_pc = "loop" => gt_ran = {i \in Tools : gt_lm.variables[i]}
    /\ gt_lm.suffix => gt_ran = {} /\ gt_captured = {}

-----------------------------------------------------------------------------
(* Commas of the object grammar: properties *)

\* the tokens without the optional whitespace
Significant(text) == SelectSeq(text, LAMBDA x : x # "ws")

\* a JSON value starts at s[i]: the index after it, or 0
RECURSIVE ParseValue(_, _)
RECURSIVE ParseMembers(_, _)
ParseMembers(s, i) ==
    IF i + 1 <= Len(s) /\ s[i] = "key" /\ s[i + 1] = ":"
    THEN LET j == ParseValue(s, i + 2)
         IN  IF j = 0 \/ j > Len(s) THEN 0
             ELSE IF s[j] = "," THEN ParseMembers(s, j + 1)
             ELSE IF s[j] = "}" THEN j + 1
             ELSE 0
    ELSE 0

ParseValue(s, i) ==
    IF i > Len(s) THEN 0
    ELSE IF s[i] \in {"string", "integer"} THEN i + 1
    ELSE IF s[i] = "{" THEN ParseMembers(s, i + 1)
    ELSE 0

\* the text is one JSON object with at least one member
WellFormedObject(text) ==
    LET s == Significant(text)
    IN  s # <<>> /\ s[1] = "{" /\ ParseValue(s, 1) = Len(s) + 1

\* the children of the Join between the braces, without the whitespace
Members(children) == SelectSeq(children, LAMBDA c : c.kind # "ws")

\* one comma between every two consecutive members, none after the last
CommasBetweenMembers(children, n) ==
    LET m == Members(children)
    IN  /\ Len(m) = 2 * n - 1
        /\ \A k \in 1..Len(m) : m[k].kind = (IF k % 2 = 1 THEN "member" ELSE "comma")

\* C36: for an object schema with n >= 1 properties, for every n, the
\* grammar built by _process_node places exactly one comma between every
\* two consecutive property members and none after the last, n - 1 commas
\* in all, so every text it accepts is a well-formed JSON object.
C36_OneCommaBetweenMembers ==
    (sg_out # <<>> /\ sg_out[1].error = "") =>
        /\ CommasBetweenMembers(sg_out[1].children, Len(sg_node.properties))
        /\ WellFormedObject(sg_out[1].text)

\* with one or two properties the commas are placed as in JSON
UpToTwoMembersWellFormed ==
    (sg_out # <<>> /\ sg_out[1].error = "" /\ Len(sg_node.properties) <= 2) =>
        /\ CommasBetweenMembers(sg_out[1].children, Len(sg_node.properties))
        /\ WellFormedObject(sg_out[1].text)

-----------------------------------------------------------------------------
(* Round trip of the messages: properties *)

\* the message deserialized is the message serialized
RoundTrip ==
    /\ mg_out[1].error = ""
    /\ mg_out[1].message = mg_message

\* C37: for every message class of visual/_message.py and every instance m
\* of it, deserialize_message(serialize_message(m)) returns a message of the
\* same class with equal fields; deserialize_message raises ValueError only
\* for a class_name that names none of these classes.
C37_MessagesRoundTrip ==
    mg_out # <<>> =>
        /\ mg_message # <<>> => RoundTrip
        /\ mg_out[1].error = "ValueError" => mg_data[1].class_name \notin MessageClasses

\* the messages of the classes registered under their own name make the
\* round trip
RegisteredByNameRoundTrip ==
    (mg_out # <<>> /\ mg_message # <<>>
        /\ mg_message[1].class_name # "ExecutionCompletedMessage") => RoundTrip

-----------------------------------------------------------------------------
(* The monitor after a restart: properties *)

\* reset(), or start() after a stop(), has returned
Restarted == mo_pc = "idle" /\ mo_last \in {"reset", "start after stop"}

\* C38: after Monitor.reset(), and after any Monitor.stop() followed by
\* Monitor.start(), the monitoring process is running its collection loop:
\* the stop flag it reads is false, so it keeps appending metrics until the
\* next stop(), and the metric lists hold only samples taken after the
\* restart.
C38_MonitorRunsAfterRestart ==
    Restarted =>
        /\ ~mo_stop_flag
        /\ mo_procs[mo_process] = "running"
        /\ \A i \in 1..Len(mo_metrics) : mo_metrics[i] = mo_process

\* as long as no stop() or reset() has stopped a process, the stop flag is
\* false and the processes started collect
RunsUntilFirstStop == ~mo_stopped => ~mo_stop_flag

\* once a stop() or reset() has stopped a process the stop flag stays true
FlagStaysSet == mo_stopped => mo_stop_flag

-----------------------------------------------------------------------------
(* RoleStart and RoleEnd chunks: properties *)

\* where the chunk was applied
Applied(kind, id) == {k \in 1..Len(ro_log) : ro_log[k] = MessageChunk(kind, id)}

\* the ids of the RoleStart chunks applied whose with-body has ended
Ended == {id \in 1..ro_ids : Applied("RoleStart", id) # {} /\ id \notin Range(ro_blocks)}

\* the position of the one chunk
At(kind, id) == CHOOSE k \in Applied(kind, id) : TRUE

\* C39: every RoleStart chunk that was applied is followed by exactly one
\* RoleEnd chunk carrying its id, applied when the with-body ends, normally
\* or by an exception; for nested role blocks the RoleEnd chunks are
\* applied in the reverse order of their RoleStart chunks; a RoleStart that
\* the API state rejects is followed by no RoleEnd.
C39_RoleEndFollowsRoleStart ==
    /\ \A id \in Ended :
            /\ Cardinality(Applied("RoleEnd", id)) = 1
            /\ At("RoleStart", id) < At("RoleEnd", id)
    /\ \A id \in Range(ro_blocks) : Applied("RoleEnd", id) = {}
    /\ \A i, j \in Ended :
            (At("RoleStart", i) < At("RoleStart", j) /\ At("RoleStart", j) < At("RoleEnd", i))
                => At("RoleEnd", j) < At("RoleEnd", i)
    /\ \A id \in ro_rejected : Applied("RoleStart", id) = {} /\ Applied("RoleEnd", id) = {}

\* two nested role blocks have been left, the outer one by an exception
\* that is still on its way
C39_Witness ==
    /\ ro_raising
    /\ ro_blocks = <<>>
    /\ \E i, j \in Ended :
            /\ At("RoleStart", i) < At("RoleStart", j)
            /\ At("RoleStart", j) < At("RoleEnd", j)
            /\ At("RoleEnd", j) < At("RoleEnd", i)

-----------------------------------------------------------------------------
(* The Join nodes of the compiled grammar *)

\* every Join node of the grammar has at least one child
RECURSIVE JoinsHaveChildren(_)
JoinsHaveChildren(g) ==
    /\ g.op = "Join" => g.kids # <<>>
    /\ \A i \in 1..Len(g.kids) : JoinsHaveChildren(g.kids[i])

\* the pattern holds an empty sequence or a repetition of at most 0
RECURSIVE HasEmptyPart(_)
HasEmptyPart(tree) ==
    \/ tree.op = "SubPattern" /\ tree.kids = <<>>
    \/ tree.op = "MAX_REPEAT" /\ tree.b = 0
    \/ \E i \in 1..Len(tree.kids) : HasEmptyPart(tree.kids[i])

\* C40: every Join node of the grammar that regex(pattern) returns has at
\* least one child, also for the empty pattern, for an empty alternative as
\* in 'a|' and for a repetition with the upper bound 0 as in a{0}, where the
\* empty string is the Null node.
C40_JoinsHaveChildren ==
    rx_grammar # <<>> => JoinsHaveChildren(rx_grammar[1])

\* when the pattern has no empty sequence and no repetition of at most 0,
\* every Join node of the grammar has at least one child
JoinsOfFullPatternsHaveChildren ==
    (rx_grammar # <<>> /\ ~HasEmptyPart(rx_tree)) => JoinsHaveChildren(rx_grammar[1])

====
